---------------------------- MODULE Spec2Model ----------------------------
(***************************************************************************)
(* A model of the MultiModelVideo ingestion pipeline, its Status Tracker,  *)
(* caption acquisition, the content indexer and the chat handlers.         *)
(*                                                                         *)
(* Conventions                                                             *)
(*  - progress fractions are kept in thousandths (0.1 is 100, 1.0 is 1000) *)
(*  - a Python dict is a function whose DOMAIN is the set of its keys      *)
(*  - None is the string "None"; an absent optional text is ""             *)
(*  - one asyncio event loop runs every coroutine: `loop` names the        *)
(*    pipeline task that is running between two suspension points (0 when  *)
(*    the loop is free).  Request handlers and other tasks run only when   *)
(*    the loop is free; a task gives the loop up at asyncio.sleep and at   *)
(*    its end.                                                             *)
(***************************************************************************)
EXTENDS Integers, Sequences, FiniteSets, TLC

VARIABLES
    processing_status,  \* videos.py: the process-wide status dict
    storage,            \* storage_dir/<video_id>: directory, media file, metadata.json
    tasks,              \* the background runs of process_video_pipeline
    loop,               \* the task holding the event loop, 0 when it is free
    collection,         \* the vector store (ChromaDB collection): a set of records
    rag,                \* the last RAGService / chat operation and its outcome
    cap,                \* one run of VideoProcessor._get_best_transcript
    helper              \* one call of a helper function: its arguments, then its result

vars == <<processing_status, storage, tasks, loop, collection, rag, cap, helper>>

-----------------------------------------------------------------------------
(* Bounds of the model *)

MaxTasks == 2        \* background runs that may be in flight together
MaxFrames == 2       \* frames extract_frames may return
MaxSampled == 1      \* frames the fallback sampling (extract_video_frames) may return

(* Program constants (progress in thousandths) *)

PROGRESS_START == 100
PROGRESS_FRAMES == 300
PROGRESS_TRANSCRIPT == 600
PROGRESS_CONTENT == 700
PROGRESS_CHAPTERS == 800
PROGRESS_SUMMARY == 900
PROGRESS_COMPLETED == 1000
PROGRESS_FAILED == 0
PROGRESS_SYNTH_PROCESSING == 500
PROGRESS_SYNTH_OTHER == 1000
PSEUDO_TAIL == 5

-----------------------------------------------------------------------------
(* Identifiers *)

YOUTUBE_PREFIX == "youtube_"

UploadIds == {"u1"}                    \* uuid4 identifiers of uploaded files
YoutubeKeys == {"yt1"}                 \* the 11-character keys found in a URL
VideoIds == UploadIds \cup {YOUTUBE_PREFIX \o k : k \in YoutubeKeys}

VideoStatus == {"uploaded", "processing", "completed", "failed", "transcript_only"}

-----------------------------------------------------------------------------
(* Python dict helpers *)

DictSet(d, k, val) == [x \in (DOMAIN d) \cup {k} |-> IF x = k THEN val ELSE d[x]]
DictDel(d, k) == [x \in (DOMAIN d) \ {k} |-> d[x]]
EmptyDict == [x \in {} |-> 0]

-----------------------------------------------------------------------------
(* The caption provider (youtube_transcript_api), as the code uses it *)

\* the order in which the provider lists the tracks of a video
TrackLangs == <<"en", "en-GB", "es", "ja">>

Entry(text, start) == [text |-> text, start |-> start]
EntryD(text, start, duration) == [text |-> text, start |-> start, duration |-> duration]

\* a provider state: which tracks exist and what they hold, which of them can
\* be translated, and whether every call fails (captions disabled, no network)
Providers ==
    [ tracks : [1..Len(TrackLangs) -> {"absent"} \cup {"empty", "one", "two"}],
      translatable : {{}, {3}, {4}},
      disabled : BOOLEAN ]

TrackEntries(name) ==
    CASE name = "empty" -> <<>>
      [] name = "one" -> <<EntryD("hello", 0, 5)>>
      [] name = "two" -> <<EntryD("", 0, 5), EntryD("  ", 2, 0), Entry(" world ", 5)>>
      [] OTHER -> <<>>

LangIndex(lang) ==
    IF \E i \in 1..Len(TrackLangs) : TrackLangs[i] = lang
    THEN CHOOSE i \in 1..Len(TrackLangs) : TrackLangs[i] = lang
    ELSE 0

HasTrack(p, lang) == LangIndex(lang) # 0 /\ p.tracks[LangIndex(lang)] # "absent"

Raised == [ok |-> FALSE, val |-> <<>>]
Returned(v) == [ok |-> TRUE, val |-> v]

\* YouTubeTranscriptApi.get_transcript(id, languages=langs): the first listed
\* language that has a track is fetched; no such track, or a disabled
\* provider, raises
get_transcript(p, langs) ==
    IF p.disabled THEN Raised
    ELSE IF \E i \in 1..Len(langs) : HasTrack(p, langs[i])
         THEN LET i == CHOOSE j \in 1..Len(langs) :
                          /\ HasTrack(p, langs[j])
                          /\ \A h \in 1..(j-1) : ~HasTrack(p, langs[h])
              IN Returned(TrackEntries(p.tracks[LangIndex(langs[i])]))
         ELSE Raised

common_languages == <<"en", "es", "fr", "de", "pt", "it">>

RECURSIVE AutoFrom(_, _)
AutoFrom(p, i) ==
    IF i > Len(common_languages) THEN <<>>
    ELSE LET r == get_transcript(p, <<common_languages[i]>>)
         IN IF r.ok THEN r.val ELSE AutoFrom(p, i + 1)

\* VideoProcessor._get_auto_transcript: never raises
_get_auto_transcript(p) == AutoFrom(p, 1)

\* VideoProcessor._get_any_transcript: never raises
_get_any_transcript(p) ==
    LET present == {i \in 1..Len(TrackLangs) : p.tracks[i] # "absent"}
        transl == {i \in present : i \in p.translatable}
        first(S) == CHOOSE i \in S : \A j \in S : i <= j
    IN IF p.disabled \/ present = {} THEN <<>>
       ELSE IF transl # {} THEN TrackEntries(p.tracks[first(transl)])
       ELSE TrackEntries(p.tracks[first(present)])

strategies == <<"English", "English variants", "Auto-generated", "Any available">>

\* the body of the try block for strategy k: what it returns, or that it raised
Strategy(p, k) ==
    CASE k = 1 -> get_transcript(p, <<"en">>)
      [] k = 2 -> get_transcript(p, <<"en-US", "en-GB">>)
      [] k = 3 -> Returned(_get_auto_transcript(p))
      [] OTHER -> Returned(_get_any_transcript(p))

RECURSIVE BestFrom(_, _)
BestFrom(p, k) ==
    IF k > Len(strategies) THEN [result |-> <<>>, attempted |-> <<>>]
    ELSE LET r == Strategy(p, k)
         IN IF r.ok THEN [result |-> r.val, attempted |-> <<k>>]
            ELSE LET rest == BestFrom(p, k + 1)
                 IN [result |-> rest.result, attempted |-> <<k>> \o rest.attempted]

\* VideoProcessor._get_best_transcript
_get_best_transcript(p) == BestFrom(p, 1)

\* a pattern that finds an identifier in every URL
UrlKey_of_any_url(url) == CHOOSE k \in YoutubeKeys : TRUE

\* re.search(r'(?:v=|\/)([0-9A-Za-z_-]{11}).*', url)
Urls == {"watch?v=" \o k : k \in YoutubeKeys} \cup {"not-a-video-url"}
UrlKey(url) ==
    IF \E k \in YoutubeKeys : url = "watch?v=" \o k
    THEN CHOOSE k \in YoutubeKeys : url = "watch?v=" \o k
    ELSE "None"

TranscriptChunk(id, text, start_time, end_time) ==
    [id |-> id, text |-> text, start_time |-> start_time, end_time |-> end_time]

\* str.strip() for texts padded with blanks
RECURSIVE strip(_)
strip(text) ==
    IF Len(text) > 0 /\ SubSeq(text, 1, 1) = " " THEN strip(SubSeq(text, 2, Len(text)))
    ELSE IF Len(text) > 0 /\ SubSeq(text, Len(text), Len(text)) = " "
    THEN strip(SubSeq(text, 1, Len(text) - 1))
    ELSE text

\* a conversion that keeps the entries whose text is empty
RECURSIVE ChunksFrom_keeps_empty(_, _, _)
ChunksFrom_keeps_empty(video_id, entries, i) ==
    IF i > Len(entries) THEN <<>>
    ELSE LET entry == entries[i]
             duration == IF "duration" \in DOMAIN entry THEN entry.duration ELSE 0
         IN <<TranscriptChunk(video_id \o "_transcript_" \o ToString(i - 1),
                              strip(entry.text), entry.start, entry.start + duration)>>
            \o ChunksFrom_keeps_empty(video_id, entries, i + 1)

\* the loop at video_processor.py 162-175 from entry i on
RECURSIVE ChunksFrom(_, _, _)
ChunksFrom(video_id, entries, i) ==
    IF i > Len(entries) THEN <<>>
    ELSE LET entry == entries[i]
             duration == IF "duration" \in DOMAIN entry THEN entry.duration ELSE 0
             chunk == TranscriptChunk(video_id \o "_transcript_" \o ToString(i - 1),
                                      strip(entry.text), entry.start,
                                      entry.start + duration)
         IN (IF chunk.text # "" THEN <<chunk>> ELSE <<>>)
            \o ChunksFrom(video_id, entries, i + 1)

\* VideoProcessor.extract_youtube_transcript: never raises
extract_youtube_transcript(url, video_id, p, api_available) ==
    IF ~api_available THEN <<>>
    ELSE IF UrlKey(url) = "None" THEN <<>>
    ELSE LET transcript_list == _get_best_transcript(p).result
         IN IF transcript_list = <<>> THEN <<>>
            ELSE ChunksFrom(video_id, transcript_list, 1)

\* what caption acquisition can hand to a pipeline run for video v: the chunks
\* and whether the provider failed to deliver any entry
CaptionOutcomes ==
    [v \in VideoIds |->
        { [chunks |-> extract_youtube_transcript(url, v, p, a),
           failed |-> _get_best_transcript(p).result = <<>> \/ ~a] :
          url \in Urls \ {"not-a-video-url"}, p \in Providers, a \in BOOLEAN }]

-----------------------------------------------------------------------------
(* Storage: storage_dir/<video_id>/ with the media file and metadata.json *)

\* frames: the ids of the frame images under <video_id>/frames/
NoStorage ==
    [dir |-> FALSE, video |-> FALSE, meta |-> FALSE, status |-> "None",
     error |-> "None", file_path |-> FALSE, source_url |-> "None", frames |-> {}]

\* VideoProcessor._save_metadata: writes the whole record
SaveMetadata(st, status, file_path, source_url) ==
    [st EXCEPT !.meta = TRUE, !.status = status, !.error = "None",
               !.file_path = file_path, !.source_url = source_url]

\* the read-modify-write of metadata.json done at the end of a run
\* (videos.py 182-197 and 213-230): only when the file exists
UpdateMetadataStatus(st, status, error) ==
    IF st.meta
    THEN [st EXCEPT !.status = status,
                    !.error = IF error # "None" THEN error ELSE @]
    ELSE st

-----------------------------------------------------------------------------
(* Status Tracker entries *)

StatusEntry(status, progress, message) ==
    [status |-> status, progress |-> progress, message |-> message, note |-> ""]


\* a synthesized entry that reports 0.5 whatever the persisted status
SynthEntry_half(persisted_status, message) ==
    StatusEntry(IF persisted_status # "processing" THEN "completed" ELSE "processing",
                PROGRESS_SYNTH_PROCESSING, message)

\* the entry get_processing_status and list_videos create when none exists
SynthEntry(persisted_status, message) ==
    StatusEntry(IF persisted_status # "processing" THEN "completed" ELSE "processing",
                IF persisted_status # "processing" THEN PROGRESS_SYNTH_OTHER
                                                   ELSE PROGRESS_SYNTH_PROCESSING,
                message)


\* a failure entry that drops the error text
FailedEntry_no_text(err) ==
    StatusEntry("failed", PROGRESS_FAILED, "Processing failed")

FailedEntry(err) ==
    StatusEntry("failed", PROGRESS_FAILED, "Processing failed: " \o err)

CompletedEntry ==
    StatusEntry("completed", PROGRESS_COMPLETED, "Video processing completed successfully")

\* processing_status[video_id].update({...}) : raises KeyError without an entry
HasEntry(ps, v) == v \in DOMAIN ps
UpdateProgress(ps, v, progress, message) ==
    DictSet(ps, v, [ps[v] EXCEPT !.progress = progress, !.message = message])
UpdateMessage(ps, v, message) ==
    DictSet(ps, v, [ps[v] EXCEPT !.message = message])


\* a progress formula that overshoots the 0.6 checkpoint
FrameProgress_overshoot(processed_frames, total_frames) ==
    PROGRESS_FRAMES + (2 * (PROGRESS_TRANSCRIPT - PROGRESS_FRAMES) * processed_frames)
                          \div total_frames

\* progress = 0.3 + (0.3 * processed_frames / total_frames)
FrameProgress(processed_frames, total_frames) ==
    PROGRESS_FRAMES + ((PROGRESS_TRANSCRIPT - PROGRESS_FRAMES) * processed_frames)
                          \div total_frames

-----------------------------------------------------------------------------
(* Frames *)

FrameData(video_id, i, timestamp) ==
    [id |-> video_id \o "_frame_" \o ToString(i), timestamp |-> timestamp,
     scene_description |-> "None"]

\* what extract_video_frames returns when it samples n frames
NewFrames(video_id, n) == [i \in 1..n |-> FrameData(video_id, i - 1, i - 1)]

\* extract_video_frames writes one image per frame it returns
\* (video_processor.py 361-404)
WriteFrames(st, frames) ==
    [st EXCEPT !.dir = TRUE,
               !.frames = @ \cup {frames[i].id : i \in 1..Len(frames)}]

\* AIService.analyze_image: always returns a string, never raises
ANALYSIS_OK == "a frame description"
AnalyzeImageOutcomes(frame_exists) ==
    IF frame_exists
    THEN {ANALYSIS_OK, "", "Image analysis not available"}
    ELSE {"Image analysis not available"}

IsDescribed(frame) == frame.scene_description \notin {"None", ""}

RECURSIVE SelectSeq2(_, _)
SelectSeq2(seq, idx) ==
    IF idx = <<>> THEN <<>> ELSE <<seq[Head(idx)]>> \o SelectSeq2(seq, Tail(idx))

\* a chunk loop that gives every chunk the length of the last one
RECURSIVE PseudoChunksFrom_fixed_length(_, _, _)
PseudoChunksFrom_fixed_length(video_id, sorted_frames, i) ==
    IF i > Len(sorted_frames) THEN <<>>
    ELSE LET frame == sorted_frames[i]
         IN (IF IsDescribed(frame)
             THEN <<TranscriptChunk(video_id \o "_visual_transcript_" \o ToString(i - 1),
                                    "Visual: " \o frame.scene_description,
                                    frame.timestamp, frame.timestamp + PSEUDO_TAIL)>>
             ELSE <<>>)
            \o PseudoChunksFrom_fixed_length(video_id, sorted_frames, i + 1)

\* the chunk loop of generate_pseudo_transcript_from_frames over the frames
\* sorted by timestamp
RECURSIVE PseudoChunksFrom(_, _, _)
PseudoChunksFrom(video_id, sorted_frames, i) ==
    IF i > Len(sorted_frames) THEN <<>>
    ELSE LET frame == sorted_frames[i]
             end_time == IF i < Len(sorted_frames)
                         THEN sorted_frames[i + 1].timestamp
                         ELSE frame.timestamp + PSEUDO_TAIL
         IN (IF IsDescribed(frame)
             THEN <<TranscriptChunk(video_id \o "_visual_transcript_" \o ToString(i - 1),
                                    "Visual: " \o frame.scene_description,
                                    frame.timestamp, end_time)>>
             ELSE <<>>)
            \o PseudoChunksFrom(video_id, sorted_frames, i + 1)

RECURSIVE InsertByTimestamp(_, _)
InsertByTimestamp(frame, sorted) ==
    IF sorted = <<>> THEN <<frame>>
    ELSE IF frame.timestamp < Head(sorted).timestamp THEN <<frame>> \o sorted
    ELSE <<Head(sorted)>> \o InsertByTimestamp(frame, Tail(sorted))

\* sorted(analyzed_frames, key=lambda x: x.timestamp): stable
RECURSIVE SortByTimestamp(_)
SortByTimestamp(frames) ==
    IF frames = <<>> THEN <<>>
    ELSE InsertByTimestamp(frames[Len(frames)],
                           SortByTimestamp(SubSeq(frames, 1, Len(frames) - 1)))

-----------------------------------------------------------------------------
(* Content Indexer: RAGService.index_video_content over the vector store.  *)
(* The collection is a dict from record id to record.                      *)

\* the fields a FrameData object has (models/video_data.py); reading any other
\* attribute of a frame raises AttributeError
FrameDataFields ==
    {"id", "frame_path", "timestamp", "scene_description",
     "objects_detected", "confidence_scores"}

ZERO_VECTOR == "zero-vector"
Embedding(text) == "embedding of " \o text

\* AIService.generate_text_embeddings: one vector per text; when the
\* capability fails on any text, every text of the call gets the zero-vector
generate_text_embeddings(texts, embedding_fails) ==
    [i \in 1..Len(texts) |-> IF embedding_fails THEN ZERO_VECTOR ELSE Embedding(texts[i])]

\* a record id that leaves the ordinal out
TranscriptRecord_without_ordinal(video_id, i, chunk, embedding) ==
    [id |-> video_id \o "_transcript",
     video_id |-> video_id, content_type |-> "transcript",
     start_time |-> chunk.start_time, end_time |-> chunk.end_time,
     ref |-> chunk.id, document |-> chunk.text, embedding |-> embedding]

TranscriptRecord(video_id, i, chunk, embedding) ==
    [id |-> video_id \o "_transcript_" \o ToString(i),
     video_id |-> video_id, content_type |-> "transcript",
     start_time |-> chunk.start_time, end_time |-> chunk.end_time,
     ref |-> chunk.id, document |-> chunk.text, embedding |-> embedding]

VisualRecord(video_id, i, frame, embedding) ==
    [id |-> video_id \o "_frame_" \o ToString(i),
     video_id |-> video_id, content_type |-> "visual",
     start_time |-> frame.timestamp, end_time |-> frame.timestamp,
     ref |-> frame.id, document |-> frame.scene_description, embedding |-> embedding]

\* collection.add: a record whose id is already stored is ignored
RECURSIVE CollectionAdd(_, _)
CollectionAdd(coll, records) ==
    IF records = <<>> THEN coll
    ELSE LET r == Head(records)
         IN CollectionAdd(IF r.id \in DOMAIN coll THEN coll ELSE DictSet(coll, r.id, r),
                          Tail(records))


\* an indexer that calls add_embeddings with an empty batch and reports success
index_video_content_always_adds(coll, video_id, transcript_chunks, frames, embedding_fails, upsert_fails) ==
    [result |-> ~upsert_fails, raised |-> FALSE, collection |-> coll, add_called |-> TRUE]

\* RAGService.index_video_content.  upsert_fails: DatabaseManager.add_embeddings
\* raises.  Gives the boolean the method returns, whether it raised (the whole
\* body is inside try/except, so it never does), the collection afterwards,
\* and whether add_embeddings was called.
index_video_content(coll, video_id, transcript_chunks, frames, embedding_fails, upsert_fails) ==
    LET transcript_embeddings ==
            generate_text_embeddings([i \in 1..Len(transcript_chunks) |->
                                         transcript_chunks[i].text], embedding_fails)
        transcript_records ==
            [i \in 1..Len(transcript_chunks) |->
                TranscriptRecord(video_id, i - 1, transcript_chunks[i],
                                 transcript_embeddings[i])]
        frame_data == SelectSeq(frames, IsDescribed)
        frame_embeddings ==
            generate_text_embeddings([i \in 1..Len(frame_data) |->
                                         frame_data[i].scene_description], embedding_fails)
        frame_records ==
            [i \in 1..Len(frame_data) |->
                VisualRecord(video_id, i - 1, frame_data[i], frame_embeddings[i])]
        ids == transcript_records \o frame_records
        no_change == [result |-> FALSE, raised |-> FALSE, collection |-> coll,
                      add_called |-> FALSE]
    IN IF frame_data # <<>> /\ "thumbnail_path" \notin FrameDataFields
       THEN no_change                       \* AttributeError, caught at 183
       ELSE IF ids = <<>> THEN no_change    \* nothing to index
       ELSE IF upsert_fails
            THEN [result |-> FALSE, raised |-> FALSE, collection |-> coll,
                  add_called |-> TRUE]      \* add_embeddings raised, caught at 183
            ELSE [result |-> TRUE, raised |-> FALSE,
                  collection |-> CollectionAdd(coll, ids), add_called |-> TRUE]

\* a delete that removes only the first transcript record of the video
delete_video_embeddings_first_only(coll, video_id) ==
    [k \in DOMAIN coll \ {video_id \o "_transcript_0"} |-> coll[k]]

\* DatabaseManager.delete_video_embeddings: collection.delete(where video_id)
delete_video_embeddings(coll, video_id) ==
    [k \in {x \in DOMAIN coll : coll[x].video_id # video_id} |-> coll[k]]

\* RAGService.delete_video_index: swallows a store failure and returns False
delete_video_index(coll, video_id, delete_fails) ==
    IF delete_fails THEN [result |-> FALSE, collection |-> coll]
    ELSE [result |-> TRUE, collection |-> delete_video_embeddings(coll, video_id)]

-----------------------------------------------------------------------------
(* Background runs of process_video_pipeline (videos.py 51-230)            *)

Tasks == 1..MaxTasks

\* the run has not written to the tracker yet
NoWrite == StatusEntry("none", 0, "")

\* pc: where the run will continue; status, file_path, source_url: the
\* VideoMetadata object handed to the run; frames, transcript_chunks: its
\* locals; sampled, analyzed, i, processed_frames, phase: the frame loops
\* (analyzed holds positions in the list being iterated: the loop collects
\* references to the frame objects it mutates); err: the exception being
\* handled.  capfail and wrote are history: whether an external capability
\* failed in this run, and the tracker entry the run last wrote.
IdleTask ==
    [pc |-> "idle", vid |-> "None", status |-> "None", file_path |-> FALSE,
     source_url |-> "None", frames |-> <<>>, transcript_chunks |-> <<>>,
     sampled |-> <<>>, analyzed |-> <<>>, i |-> 0, processed_frames |-> 0,
     phase |-> 0, err |-> "None", capfail |-> FALSE, wrote |-> NoWrite]

\* a run whose frames list is not emptied when the run starts
NewTask_with_frames(v, status, file_path, source_url) ==
    [IdleTask EXCEPT !.pc = "scheduled", !.vid = v, !.status = status,
                     !.file_path = file_path, !.source_url = source_url,
                     !.frames = NewFrames(v, 1)]

\* videos.py 51-63: the run as scheduled, with the metadata it was handed
\* and an empty frames list
NewTask(v, status, file_path, source_url) ==
    [IdleTask EXCEPT !.pc = "scheduled", !.vid = v, !.status = status,
                     !.file_path = file_path, !.source_url = source_url]

FreeSlots == {t \in Tasks : tasks[t].pc = "idle"}
\* background_tasks.add_task: the run takes the first free slot
FirstFree == CHOOSE t \in FreeSlots : \A u \in FreeSlots : t <= u

\* a task continues when it holds the loop, or when the loop is free and the
\* task is suspended (scheduled, or in asyncio.sleep)
MayRun(t) == loop = t \/ loop = 0

\* videos.py 57-83: the start checkpoint, then frame extraction for a video
\* with local media
PipelineStart(t) ==
    LET task == tasks[t]
        v == task.vid
        started == DictSet(processing_status, v,
                       StatusEntry("processing", PROGRESS_START, "Starting video processing..."))
    IN /\ task.pc = "scheduled"
       /\ loop = 0
       /\ loop' = t
       /\ IF task.status = "transcript_only"
          THEN /\ processing_status' =
                      UpdateProgress(started, v, PROGRESS_FRAMES,
                                     "Processing transcript-only video...")
               /\ tasks' = [tasks EXCEPT ![t] =
                      [task EXCEPT !.pc = "transcript", !.wrote = processing_status'[v]]]
               /\ UNCHANGED storage
          ELSE IF task.file_path /\ storage[v].video
          THEN \E n \in 0..MaxFrames :
               /\ storage' = [storage EXCEPT ![v] = WriteFrames(@, NewFrames(v, n))]
               /\ processing_status' =
                      UpdateProgress(started, v, PROGRESS_FRAMES,
                                     "Frames extracted, analyzing content...")
               /\ tasks' = [tasks EXCEPT ![t] =
                      [task EXCEPT !.pc = IF n = 0 THEN "transcript" ELSE "analyze",
                                   !.frames = NewFrames(v, n),
                                   !.i = 1, !.processed_frames = 0,
                                   !.capfail = (n = 0),
                                   !.wrote = processing_status'[v]]]
          ELSE /\ processing_status' = started
               /\ tasks' = [tasks EXCEPT ![t] =
                      [task EXCEPT !.pc = "transcript", !.wrote = processing_status'[v]]]
               /\ UNCHANGED storage
       /\ UNCHANGED <<collection, rag, cap, helper>>

\* videos.py 564-590: one iteration of the loop of _analyze_frames_with_ai.
\* analyze_image returns a string; a non-empty string has no .get, so line 570
\* raises AttributeError and the handler at 586 runs; an empty string takes
\* the else branch, the progress write and the sleep.  The counters are
\* locals of the helper and are gone when it returns.
AnalyzeFrameWithAI(t) ==
    LET task == tasks[t]
        v == task.vid
        total_frames == Len(task.frames)
        last == task.i = total_frames
        failed_frame == [task.frames[task.i] EXCEPT !.scene_description = "Analysis failed"]
    IN /\ task.pc = "analyze"
       /\ MayRun(t)
       /\ \E analysis \in AnalyzeImageOutcomes(storage[v].dir) :
            LET raises == analysis # "" \/ ~HasEntry(processing_status, v)
                processed_frames ==
                    IF analysis # "" THEN task.processed_frames + 1
                    ELSE IF ~HasEntry(processing_status, v) THEN task.processed_frames + 2
                    ELSE task.processed_frames + 1
            IN /\ processing_status' =
                    IF raises THEN processing_status
                    ELSE DictSet(processing_status, v,
                             [processing_status[v] EXCEPT
                                 !.progress = FrameProgress(processed_frames, total_frames)])
               /\ tasks' = [tasks EXCEPT ![t] =
                    [task EXCEPT !.frames = [task.frames EXCEPT ![task.i] = failed_frame],
                                 !.processed_frames = IF last THEN 0 ELSE processed_frames,
                                 !.i = IF last THEN 0 ELSE task.i + 1,
                                 !.capfail = task.capfail \/ analysis # ANALYSIS_OK,
                                 !.wrote = IF raises THEN @ ELSE processing_status'[v],
                                 !.pc = IF last THEN "transcript" ELSE "analyze"]]
               /\ loop' = IF ~raises /\ ~last THEN 0 ELSE t
       /\ UNCHANGED <<storage, collection, rag, cap, helper>>

\* raising inside the try block of process_video_pipeline: control goes to
\* the handler at 204, which uses video_id and the exception only
Raise(task, err) ==
    [IdleTask EXCEPT !.pc = "except", !.vid = task.vid, !.err = err,
                     !.capfail = task.capfail, !.wrote = task.wrote]

\* a caption stage in which a failure of the provider reaches the run
TranscriptStage_propagates(t) ==
    LET task == tasks[t]
        v == task.vid
    IN /\ task.pc = "transcript"
       /\ MayRun(t)
       /\ loop' = t
       /\ IF ~HasEntry(processing_status, v)
          THEN /\ tasks' = [tasks EXCEPT ![t] = Raise(task, "KeyError")]
               /\ UNCHANGED processing_status
          ELSE /\ processing_status' =
                      UpdateProgress(processing_status, v, PROGRESS_TRANSCRIPT,
                                     "Extracting transcript...")
               /\ IF task.source_url # "None"
                  THEN \E o \in CaptionOutcomes[v] :
                         tasks' = [tasks EXCEPT ![t] =
                            IF o.failed
                            THEN [Raise(task, "TranscriptsDisabled")
                                     EXCEPT !.wrote = processing_status'[v]]
                            ELSE [task EXCEPT !.pc = "content",
                                              !.transcript_chunks = o.chunks,
                                              !.wrote = processing_status'[v]]]
                  ELSE tasks' = [tasks EXCEPT ![t] =
                            [task EXCEPT !.pc = "content",
                                         !.transcript_chunks = <<>>,
                                         !.wrote = processing_status'[v]]]
       /\ UNCHANGED <<storage, collection, rag, cap, helper>>

\* videos.py 85-94: the 0.6 checkpoint and caption acquisition
TranscriptStage(t) ==
    LET task == tasks[t]
        v == task.vid
    IN /\ task.pc = "transcript"
       /\ MayRun(t)
       /\ loop' = t
       /\ IF ~HasEntry(processing_status, v)
          THEN /\ tasks' = [tasks EXCEPT ![t] = Raise(task, "KeyError")]
               /\ UNCHANGED processing_status
          ELSE /\ processing_status' =
                      UpdateProgress(processing_status, v, PROGRESS_TRANSCRIPT,
                                     "Extracting transcript...")
               /\ IF task.source_url # "None"
                  THEN \E o \in CaptionOutcomes[v] :
                         tasks' = [tasks EXCEPT ![t] =
                            [task EXCEPT !.pc = "content",
                                         !.transcript_chunks = o.chunks,
                                         !.capfail = task.capfail \/ o.failed,
                                         !.wrote = processing_status'[v]]]
                  ELSE tasks' = [tasks EXCEPT ![t] =
                            [task EXCEPT !.pc = "content",
                                         !.transcript_chunks = <<>>,
                                         !.wrote = processing_status'[v]]]
       /\ UNCHANGED <<storage, collection, rag, cap, helper>>

\* a decision that looks at the status only
UsesFallback_whatever_the_captions(transcript_chunks, status) ==
    status # "transcript_only"

\* videos.py 103: the run falls back to a pseudo-transcript when caption
\* acquisition gave no chunk and the video is not transcript-only
UsesFallback(transcript_chunks, status) ==
    transcript_chunks = <<>> /\ status # "transcript_only"

\* videos.py 96-122: the 0.7 checkpoint, the decision to fall back to a
\* pseudo-transcript, and the sampling of up to 20 frames
ContentStage(t) ==
    LET task == tasks[t]
        v == task.vid
        at07 == UpdateProgress(processing_status, v, PROGRESS_CONTENT,
                               "Processing video content...")
    IN /\ task.pc = "content"
       /\ MayRun(t)
       /\ loop' = t
       /\ IF ~HasEntry(processing_status, v)
          THEN /\ tasks' = [tasks EXCEPT ![t] = Raise(task, "KeyError")]
               /\ UNCHANGED <<processing_status, storage>>
          ELSE IF UsesFallback(task.transcript_chunks, task.status)
          THEN IF task.file_path /\ storage[v].video
               THEN \E n \in 0..MaxSampled :
                    /\ storage' = [storage EXCEPT ![v] = WriteFrames(@, NewFrames(v, n))]
                    /\ processing_status' =
                          UpdateMessage(at07, v,
                              IF n > 0 THEN "Generating frame descriptions..."
                              ELSE "No transcript found. Analyzing video frames...")
                    /\ tasks' = [tasks EXCEPT ![t] =
                          [task EXCEPT !.pc = IF n > 0 THEN "describe" ELSE "chapters",
                                       !.frames = <<>>,
                                       !.sampled = NewFrames(v, n),
                                       !.analyzed = <<>>, !.i = 1, !.phase = 1,
                                       !.capfail = task.capfail \/ n = 0,
                                       !.wrote = processing_status'[v]]]
               ELSE /\ processing_status' = at07
                    /\ tasks' = [tasks EXCEPT ![t] =
                          [task EXCEPT !.pc = "chapters", !.frames = <<>>,
                                       !.wrote = processing_status'[v]]]
                    /\ UNCHANGED storage
          ELSE /\ processing_status' = at07
               /\ tasks' = [tasks EXCEPT ![t] =
                      [task EXCEPT !.pc = "chapters", !.wrote = processing_status'[v]]]
               /\ UNCHANGED storage
       /\ UNCHANGED <<collection, rag, cap, helper>>

batch_size == 3

\* video_processor.py 442-453: one iteration of the frame loop of
\* analyze_video_frames over task.sampled.  phase 1 is the call at videos.py
\* 123, phase 2 the call made again by generate_pseudo_transcript_from_frames
\* (327) on the frames the first call returned.
DescribeFrame(t) ==
    LET task == tasks[t]
        v == task.vid
        frame == task.sampled[task.i]
        exists == storage[v].dir
        batch_end == task.i % batch_size = 0 /\ task.i < Len(task.sampled)
    IN /\ task.pc = "describe"
       /\ task.i <= Len(task.sampled)
       /\ MayRun(t)
       /\ IF ~exists
          THEN /\ tasks' = [tasks EXCEPT ![t] = [task EXCEPT !.i = task.i + 1]]
               /\ loop' = IF batch_end THEN 0 ELSE t
          ELSE \E frame_description \in AnalyzeImageOutcomes(exists) :
               /\ tasks' = [tasks EXCEPT ![t] =
                     [task EXCEPT !.sampled[task.i].scene_description = frame_description,
                                  !.analyzed = Append(task.analyzed, task.i),
                                  !.capfail = task.capfail \/ frame_description # ANALYSIS_OK,
                                  !.i = task.i + 1]]
               /\ loop' = 0
       /\ UNCHANGED <<processing_status, storage, collection, rag, cap, helper>>

\* the end of the frame loop: analyze_video_frames returns the frames it
\* analyzed.  After phase 1 the pipeline keeps them as frames and, when there
\* are any, enters generate_pseudo_transcript_from_frames, which analyzes them
\* again; after phase 2 the chunks are built (video_processor.py 328-349).
DescribeDone(t) ==
    LET task == tasks[t]
        v == task.vid
        analyzed_frames == SelectSeq2(task.sampled, task.analyzed)
    IN /\ task.pc = "describe"
       /\ task.i > Len(task.sampled)
       /\ MayRun(t)
       /\ loop' = t
       /\ IF task.phase = 1
          THEN tasks' = [tasks EXCEPT ![t] =
                  [task EXCEPT !.sampled = analyzed_frames,
                               !.analyzed = <<>>, !.i = 1, !.phase = 2,
                               !.pc = IF analyzed_frames # <<>> THEN "describe" ELSE "chapters"]]
          ELSE tasks' = [tasks EXCEPT ![t] =
                  [task EXCEPT !.frames = task.sampled,
                               !.sampled = <<>>, !.analyzed = <<>>, !.i = 0, !.phase = 0,
                               !.transcript_chunks =
                                   IF analyzed_frames = <<>> THEN <<>>
                                   ELSE PseudoChunksFrom(v, SortByTimestamp(analyzed_frames), 1),
                               !.pc = "chapters"]]
       /\ UNCHANGED <<processing_status, storage, collection, rag, cap, helper>>

\* the public methods of VideoProcessor with the number of positional
\* arguments each accepts after self (video_processor.py)
VideoProcessorMethods ==
    [ generate_video_chapters |-> 2,
      create_video_thumbnail |-> 2,
      cleanup_temp_files |-> 1,
      extract_frames |-> 3,
      extract_video_frames |-> 4,
      analyze_video_frames |-> 2,
      generate_pseudo_transcript_from_frames |-> 2,
      extract_youtube_transcript |-> 2 ]

\* calling video_processor.<method> with nargs positional arguments
CallMethod(method, nargs) ==
    IF method \notin DOMAIN VideoProcessorMethods
    THEN [ok |-> FALSE, err |-> "AttributeError"]
    ELSE IF nargs > VideoProcessorMethods[method]
    THEN [ok |-> FALSE, err |-> "TypeError"]
    ELSE [ok |-> TRUE, err |-> "None"]

\* videos.py 138-146: the chapter call the run makes
GenerateChaptersCall(task) ==
    IF task.status # "transcript_only" /\ task.file_path
    THEN CallMethod("generate_video_chapters", 3)
    ELSE CallMethod("generate_chapters_from_transcript", 2)

NO_TRANSCRIPT_NOTE == "No transcripts were found for this video."

\* videos.py 132-202: the 0.8 checkpoint and the chapter call; when the call
\* returns, indexing, the 0.9 checkpoint, summary, thumbnail and the final
\* writes follow with no suspension point in between, and the run ends
ChapterStage(t) ==
    LET task == tasks[t]
        v == task.vid
        call == GenerateChaptersCall(task)
        at08 == UpdateProgress(processing_status, v, PROGRESS_CHAPTERS,
                               "Generating chapters...")
        indexing == UpdateProgress(at08, v, PROGRESS_CHAPTERS,
                                   "Creating embeddings and indexing...")
        noted == IF task.transcript_chunks = <<>>
                 THEN DictSet(indexing, v, [indexing[v] EXCEPT !.note = NO_TRANSCRIPT_NOTE])
                 ELSE indexing
        at09 == UpdateProgress(noted, v, PROGRESS_SUMMARY, "Generating summary...")
    IN /\ task.pc = "chapters"
       /\ MayRun(t)
       /\ IF ~HasEntry(processing_status, v)
          THEN /\ tasks' = [tasks EXCEPT ![t] = Raise(task, "KeyError")]
               /\ loop' = t
               /\ UNCHANGED <<processing_status, storage, collection>>
          ELSE IF ~call.ok
          THEN /\ processing_status' = at08
               /\ tasks' = [tasks EXCEPT ![t] =
                      [Raise(task, call.err) EXCEPT !.wrote = at08[v]]]
               /\ loop' = t
               /\ UNCHANGED <<storage, collection>>
          ELSE \E embedding_fails \in BOOLEAN, upsert_fails \in BOOLEAN :
               LET indexed == index_video_content(collection, v, task.transcript_chunks,
                                                  task.frames, embedding_fails, upsert_fails)
               IN /\ collection' = indexed.collection
                  /\ processing_status' = DictSet(at09, v, CompletedEntry)
                  /\ storage' = [storage EXCEPT ![v] =
                                    UpdateMetadataStatus(@, "completed", "None")]
                  /\ tasks' = [tasks EXCEPT ![t] = IdleTask]
                  /\ loop' = 0
       /\ UNCHANGED <<rag, cap, helper>>

\* a handler that removes what the run wrote
FailureHandler_rolls_back(t) ==
    LET task == tasks[t]
        v == task.vid
    IN /\ task.pc = "except"
       /\ MayRun(t)
       /\ processing_status' = DictSet(processing_status, v, FailedEntry(task.err))
       /\ storage' = [storage EXCEPT ![v] =
                         [UpdateMetadataStatus(@, "failed", task.err) EXCEPT !.frames = {}]]
       /\ collection' = delete_video_embeddings(collection, v)
       /\ tasks' = [tasks EXCEPT ![t] = IdleTask]
       /\ loop' = 0
       /\ UNCHANGED <<rag, cap, helper>>

\* a handler that replaces the tracker by the entry of the failed video
FailureHandler_resets_tracker(t) ==
    LET task == tasks[t]
        v == task.vid
    IN /\ task.pc = "except"
       /\ MayRun(t)
       /\ processing_status' = DictSet(EmptyDict, v, FailedEntry(task.err))
       /\ storage' = [storage EXCEPT ![v] = UpdateMetadataStatus(@, "failed", task.err)]
       /\ tasks' = [tasks EXCEPT ![t] = IdleTask]
       /\ loop' = 0
       /\ UNCHANGED <<collection, rag, cap, helper>>

\* videos.py 204-230: the handler of any exception of the run; the run ends
FailureHandler(t) ==
    LET task == tasks[t]
        v == task.vid
    IN /\ task.pc = "except"
       /\ MayRun(t)
       /\ processing_status' = DictSet(processing_status, v, FailedEntry(task.err))
       /\ storage' = [storage EXCEPT ![v] = UpdateMetadataStatus(@, "failed", task.err)]
       /\ tasks' = [tasks EXCEPT ![t] = IdleTask]
       /\ loop' = 0
       /\ UNCHANGED <<collection, rag, cap, helper>>

-----------------------------------------------------------------------------
(* Request handlers of api/routes/videos.py.  A handler runs on the event  *)
(* loop with no suspension point, so it runs only while the loop is free.  *)

\* ProcessingStatus(progress=Field(ge=0.0, le=1.0)): the response model
\* rejects a progress outside [0, 1]
ValidProgress(progress) == 0 <= progress /\ progress <= PROGRESS_COMPLETED

\* what GET /{video_id}/status answers in the current state (videos.py
\* 351-391): the tracker's entry when there is one; else, when the directory
\* and metadata.json exist, an entry synthesized from the persisted status;
\* else 404.  synthesized tells that the handler stores the entry it returns.
StatusResponse(video_id) ==
    IF HasEntry(processing_status, video_id)
    THEN LET status_data == processing_status[video_id]
         IN IF ValidProgress(status_data.progress)
            THEN [code |-> 200, entry |-> status_data, synthesized |-> FALSE]
            ELSE [code |-> 500, entry |-> NoWrite, synthesized |-> FALSE]
    ELSE IF storage[video_id].dir /\ storage[video_id].meta
    THEN [code |-> 200,
          entry |-> SynthEntry(storage[video_id].status, "Video is available"),
          synthesized |-> TRUE]
    ELSE [code |-> 404, entry |-> NoWrite, synthesized |-> FALSE]

\* GET /{video_id}/status: the effect of the handler on the tracker
get_processing_status(video_id) ==
    /\ loop = 0
    /\ processing_status' =
          IF StatusResponse(video_id).synthesized
          THEN DictSet(processing_status, video_id, StatusResponse(video_id).entry)
          ELSE processing_status
    /\ UNCHANGED <<storage, tasks, loop, collection, rag, cap, helper>>

\* the item GET / reports for one directory of storage_dir (videos.py
\* 503-546): the tracker's entry, or one synthesized from metadata.json
ListItem(video_id) ==
    IF HasEntry(processing_status, video_id)
    THEN [id |-> video_id, status |-> processing_status[video_id].status,
          progress |-> processing_status[video_id].progress, synthesized |-> FALSE]
    ELSE IF storage[video_id].meta
    THEN LET entry == SynthEntry(storage[video_id].status, "Video is available")
         IN [id |-> video_id, status |-> entry.status, progress |-> entry.progress,
             synthesized |-> TRUE]
    ELSE [id |-> video_id, status |-> "unknown", progress |-> 0, synthesized |-> FALSE]

\* GET / (videos.py 492-555): the effect of the handler on the tracker
list_videos ==
    LET dirs == {v \in VideoIds : storage[v].dir}
        created == {v \in dirs : ListItem(v).synthesized}
    IN /\ loop = 0
       /\ processing_status' =
             [v \in (DOMAIN processing_status) \cup created |->
                 IF v \in created
                 THEN SynthEntry(storage[v].status, "Video is available")
                 ELSE processing_status[v]]
       /\ UNCHANGED <<storage, tasks, loop, collection, rag, cap, helper>>

\* a deletion that leaves the tracker entry in place
delete_video_keeps_entry(video_id) ==
    /\ loop = 0
    /\ \E delete_fails \in BOOLEAN :
         collection' = delete_video_index(collection, video_id, delete_fails).collection
    /\ storage' = [storage EXCEPT ![video_id] = NoStorage]
    /\ UNCHANGED <<processing_status, tasks, loop, rag, cap, helper>>

\* videos.py 472-484: the body of delete_video.  The boolean that
\* delete_video_index returns is not looked at; the directory and the tracker
\* entry are removed whatever it is.
DeleteEffect(video_id, delete_fails) ==
    /\ collection' = delete_video_index(collection, video_id, delete_fails).collection
    /\ storage' = [storage EXCEPT ![video_id] = NoStorage]
    /\ processing_status' = DictDel(processing_status, video_id)

\* videos.py 485-489: the answer of delete_video, 500 only from the except
\* clause, which a failing store deletion never reaches
DeleteResponse(delete_fails) == 200

\* DELETE /{video_id} (videos.py 468-489)
delete_video(video_id) ==
    /\ loop = 0
    /\ \E delete_fails \in BOOLEAN : DeleteEffect(video_id, delete_fails)
    /\ UNCHANGED <<tasks, loop, rag, cap, helper>>

\* POST /upload (videos.py 233-278) with VideoProcessor.process_uploaded_video:
\* a fresh uuid4 identifier, the file moved to video.mp4, metadata.json saved
\* with status uploaded, the run scheduled
upload_video(video_id) ==
    /\ loop = 0
    /\ video_id \in UploadIds
    /\ ~storage[video_id].dir
    /\ FreeSlots # {}
    /\ storage' = [storage EXCEPT ![video_id] =
          SaveMetadata([@ EXCEPT !.dir = TRUE, !.video = TRUE], "uploaded", TRUE, "None")]
    /\ tasks' = [tasks EXCEPT ![FirstFree] = NewTask(video_id, "uploaded", TRUE, "None")]
    /\ UNCHANGED <<processing_status, loop, collection, rag, cap, helper>>

\* what one request of POST /youtube does to the files and the scheduled runs
YoutubeAccept(url, info_ok, downloaded) ==
    IF UrlKey(url) = "None"
    THEN UNCHANGED <<storage, tasks>>
    ELSE LET video_id == YOUTUBE_PREFIX \o UrlKey(url)
         IN IF ~info_ok
            THEN /\ storage' = [storage EXCEPT ![video_id].dir = TRUE]
                 /\ UNCHANGED tasks
            ELSE LET status == IF downloaded THEN "processing" ELSE "transcript_only"
                 IN /\ storage' = [storage EXCEPT ![video_id] =
                           SaveMetadata([@ EXCEPT !.dir = TRUE,
                                                  !.video = @ \/ downloaded],
                                        status, downloaded, url)]
                    /\ tasks' = [tasks EXCEPT ![FirstFree] =
                           NewTask(video_id, status, downloaded, url)]

\* what POST /youtube answers (videos.py 287-313): the metadata, or 500 for
\* any exception of VideoProcessor.process_youtube_video
YoutubeResponse(url, info_ok) ==
    IF UrlKey(url) = "None" \/ ~info_ok THEN 500 ELSE 200

\* POST /youtube (videos.py 281-314) with VideoProcessor.process_youtube_video
\* (video_processor.py 84-136).  info_ok: yt_dlp answers; downloaded: the
\* download setting is on and a media file was found.
process_youtube_video(url) ==
    /\ loop = 0
    /\ FreeSlots # {}
    /\ \E info_ok \in BOOLEAN, downloaded \in BOOLEAN : YoutubeAccept(url, info_ok, downloaded)
    /\ UNCHANGED <<processing_status, loop, collection, rag, cap, helper>>

\* what POST /{video_id}/process answers (videos.py 598-642): 404 without the
\* directory or video.mp4 (the name only uploads are stored under), 500
\* without metadata.json, else 200
ProcessResponse(video_id) ==
    IF ~storage[video_id].dir \/ ~(video_id \in UploadIds /\ storage[video_id].video)
    THEN 404
    ELSE IF ~storage[video_id].meta THEN 500 ELSE 200

\* POST /{video_id}/process: the pipeline is scheduled again for a stored upload
process_specific_video(video_id) ==
    /\ loop = 0
    /\ FreeSlots # {}
    /\ tasks' = IF ProcessResponse(video_id) = 200
                THEN [tasks EXCEPT ![FirstFree] =
                        NewTask(video_id, storage[video_id].status,
                                storage[video_id].file_path, storage[video_id].source_url)]
                ELSE tasks
    /\ UNCHANGED <<processing_status, storage, loop, collection, rag, cap, helper>>

\* the process stops and starts again: the status dict and the runs in flight
\* are lost, the files and the vector store stay
Restart ==
    /\ processing_status # EmptyDict \/ \E t \in Tasks : tasks[t] # IdleTask
    /\ processing_status' = EmptyDict
    /\ tasks' = [t \in Tasks |-> IdleTask]
    /\ loop' = 0
    /\ UNCHANGED <<storage, collection, rag, cap, helper>>

-----------------------------------------------------------------------------
(* The ingestion system *)

NoRag == [op |-> "none"]
NoCap == [pc |-> "idle"]
NoCall == [fn |-> "none"]

Init ==
    /\ processing_status = EmptyDict
    /\ storage = [v \in VideoIds |-> NoStorage]
    /\ tasks = [t \in Tasks |-> IdleTask]
    /\ loop = 0
    /\ collection = EmptyDict
    /\ rag = NoRag
    /\ cap = NoCap
    /\ helper = NoCall

Next ==
    \/ \E t \in Tasks : PipelineStart(t)
    \/ \E t \in Tasks : AnalyzeFrameWithAI(t)
    \/ \E t \in Tasks : TranscriptStage(t)
    \/ \E t \in Tasks : ContentStage(t)
    \/ \E t \in Tasks : DescribeFrame(t)
    \/ \E t \in Tasks : DescribeDone(t)
    \/ \E t \in Tasks : ChapterStage(t)
    \/ \E t \in Tasks : FailureHandler(t)
    \/ \E v \in VideoIds : get_processing_status(v)
    \/ list_videos
    \/ \E v \in VideoIds : delete_video(v)
    \/ \E v \in VideoIds : upload_video(v)
    \/ \E url \in Urls : process_youtube_video(url)
    \/ \E v \in VideoIds : process_specific_video(v)
    \/ Restart

Spec == Init /\ [][Next]_vars

-----------------------------------------------------------------------------
(* Caption acquisition on its own: one call of extract_youtube_transcript, *)
(* with the loop of _get_best_transcript taken one strategy at a time.     *)

\* video_processor.py 139-160: the guards of extract_youtube_transcript, then
\* the entry to _get_best_transcript
CaptionRequest ==
    /\ cap.pc = "idle"
    /\ \E url \in Urls, p \in Providers, api_available \in BOOLEAN :
         IF ~api_available \/ UrlKey(url) = "None"
         THEN cap' = [pc |-> "done", p |-> p, attempted |-> <<>>,
                      transcript_list |-> <<>>, chunks |-> <<>>,
                      video_id |-> "None"]
         ELSE cap' = [pc |-> "strategy", p |-> p, k |-> 1, attempted |-> <<>>,
                      video_id |-> YOUTUBE_PREFIX \o UrlKey(url)]
    /\ UNCHANGED <<processing_status, storage, tasks, loop, collection, rag, helper>>

\* video_processor.py 193-208: one iteration of the loop over strategies.  A
\* strategy that returns ends the chain with what it returned; one that
\* raises is followed by the next; after the last, [] is returned.
TryStrategy ==
    /\ cap.pc = "strategy"
    /\ LET r == Strategy(cap.p, cap.k)
           attempted == Append(cap.attempted, cap.k)
       IN IF r.ok
          THEN cap' = [pc |-> "convert", p |-> cap.p, attempted |-> attempted,
                       transcript_list |-> r.val, video_id |-> cap.video_id]
          ELSE IF cap.k < Len(strategies)
          THEN cap' = [cap EXCEPT !.k = cap.k + 1, !.attempted = attempted]
          ELSE cap' = [pc |-> "convert", p |-> cap.p, attempted |-> attempted,
                       transcript_list |-> <<>>, video_id |-> cap.video_id]
    /\ UNCHANGED <<processing_status, storage, tasks, loop, collection, rag, helper>>

\* video_processor.py 158-178: the conversion of the entries to chunks
ConvertEntries ==
    /\ cap.pc = "convert"
    /\ cap' = [pc |-> "done", p |-> cap.p, attempted |-> cap.attempted,
               transcript_list |-> cap.transcript_list,
               chunks |-> IF cap.transcript_list = <<>> THEN <<>>
                          ELSE ChunksFrom(cap.video_id, cap.transcript_list, 1),
               video_id |-> cap.video_id]
    /\ UNCHANGED <<processing_status, storage, tasks, loop, collection, rag, helper>>

\* the call has returned; the next one may start
CaptionReturn ==
    /\ cap.pc = "done"
    /\ cap' = NoCap
    /\ UNCHANGED <<processing_status, storage, tasks, loop, collection, rag, helper>>

NextCaption ==
    \/ CaptionRequest
    \/ TryStrategy
    \/ ConvertEntries
    \/ CaptionReturn

SpecCaption == Init /\ [][NextCaption]_vars

-----------------------------------------------------------------------------
(* The content indexer and the chat handlers on their own                  *)

MaxUnits == 2        \* transcript units handed to one indexing call

\* the transcript units and frames an indexing call may be given
ChunkInputs(video_id) ==
    { [i \in 1..n |-> TranscriptChunk(video_id \o "_transcript_" \o ToString(i - 1),
                                      "text " \o ToString(i - 1), i - 1, i)] :
      n \in 0..MaxUnits }

FrameInputs(video_id) ==
    {<<>>} \cup
    { <<[FrameData(video_id, 0, 0) EXCEPT !.scene_description = d]>> :
      d \in {"None", "", ANALYSIS_OK} }

\* the ids of the records the store holds for a video
VideoRecords(coll, video_id) == {k \in DOMAIN coll : coll[k].video_id = video_id}

\* RAGService.index_video_content called with bounded inputs
IndexContent ==
    \E video_id \in VideoIds :
    \E transcript_chunks \in ChunkInputs(video_id), frames \in FrameInputs(video_id),
       embedding_fails \in BOOLEAN, upsert_fails \in BOOLEAN :
       LET r == index_video_content(collection, video_id, transcript_chunks, frames,
                                    embedding_fails, upsert_fails)
       IN /\ collection' = r.collection
          /\ rag' = [op |-> "index", video_id |-> video_id,
                     units |-> Len(transcript_chunks),
                     described |-> Len(SelectSeq(frames, IsDescribed)),
                     fresh |-> VideoRecords(collection, video_id) = {},
                     embedding_fails |-> embedding_fails,
                     upsert_fails |-> upsert_fails,
                     result |-> r.result, raised |-> r.raised,
                     add_called |-> r.add_called,
                     changed |-> r.collection # collection]
          /\ UNCHANGED <<processing_status, storage, tasks, loop, cap, helper>>

\* RAGService.delete_video_index
DeleteIndex ==
    \E video_id \in VideoIds, delete_fails \in BOOLEAN :
       LET r == delete_video_index(collection, video_id, delete_fails)
       IN /\ collection' = r.collection
          /\ rag' = [op |-> "delete_index", video_id |-> video_id, result |-> r.result,
                     indexed |-> VideoRecords(collection, video_id) # {}]
          /\ UNCHANGED <<processing_status, storage, tasks, loop, cap, helper>>

\* str.startswith and the slice video_id[8:]
StartsWith(str, prefix) ==
    Len(str) >= Len(prefix) /\ SubSeq(str, 1, Len(prefix)) = prefix
StripPrefix(str, prefix) == SubSeq(str, Len(prefix) + 1, Len(str))

\* a resolution that tries the prefixed form before the exact one
_get_video_id_match_prefixed_first(video_id, video_ids) ==
    IF (YOUTUBE_PREFIX \o video_id) \in video_ids THEN YOUTUBE_PREFIX \o video_id
    ELSE IF video_id \in video_ids THEN video_id
    ELSE "None"

\* chat.py 29-44; video_ids is the set of the identifiers in available_videos
_get_video_id_match(video_id, video_ids) ==
    IF video_id \in video_ids THEN video_id
    ELSE IF (YOUTUBE_PREFIX \o video_id) \in video_ids THEN YOUTUBE_PREFIX \o video_id
    ELSE IF StartsWith(video_id, YOUTUBE_PREFIX)
            /\ StripPrefix(video_id, YOUTUBE_PREFIX) \in video_ids
    THEN StripPrefix(video_id, YOUTUBE_PREFIX)
    ELSE "None"

\* identifiers a chat request may carry, and identifiers an index may hold
RequestIds == {"", "u1", "yt1", "youtube_yt1", "youtube_u1", "youtube_", "zz"}
MatchIds == {"u1", "yt1", "youtube_yt1"}

\* _get_video_id_match applied to bounded inputs
ResolveIdentifier ==
    \E video_id \in RequestIds, video_ids \in SUBSET MatchIds :
       /\ rag' = [op |-> "match", video_id |-> video_id, video_ids |-> video_ids,
                  result |-> _get_video_id_match(video_id, video_ids)]
       /\ UNCHANGED <<processing_status, storage, tasks, loop, collection, cap, helper>>

\* RAGService.get_available_videos: the distinct video_id values of the stored
\* records; [] when the store fails (rag_service.py 38-69)
get_available_videos(coll, store_fails) ==
    IF store_fails THEN {} ELSE {coll[k].video_id : k \in DOMAIN coll}

\* RAGService.get_stats: total_embeddings, 0 when the store fails
get_stats(coll, store_fails) ==
    IF store_fails THEN 0 ELSE Cardinality(DOMAIN coll)

\* RAGService.get_video_stats: the number of transcript records of a video, 0
\* when the store fails (rag_service.py 71-106)
get_video_stats(coll, video_id, store_fails) ==
    IF store_fails THEN 0
    ELSE Cardinality({k \in DOMAIN coll : /\ coll[k].video_id = video_id
                                          /\ coll[k].content_type = "transcript"})

\* a query sent to the vector store: where is the video_id filter, "None"
\* when the query carries no filter
StoreQuery(where) == [where |-> where]

\* the records a store query matches
QueryMatches(coll, q) ==
    {k \in DOMAIN coll : q.where = "None" \/ coll[k].video_id = q.where}

NextRag ==
    \/ IndexContent
    \/ DeleteIndex
    \/ ResolveIdentifier

SpecRag == Init /\ [][NextRag]_vars

-----------------------------------------------------------------------------
(* Helper functions on their own: each call starts from its arguments      *)

TIMESTAMP_TOLERANCE == 30

DIGITS == <<"0", "1", "2", "3", "4", "5", "6", "7", "8", "9">>

\* the character of a string at a position, "" past its end
CharAt(str, i) == IF i >= 1 /\ i <= Len(str) THEN SubSeq(str, i, i) ELSE ""
IsDigit(c) == \E d \in 1..10 : DIGITS[d] = c
DigitVal(c) == (CHOOSE d \in 1..10 : DIGITS[d] = c) - 1

\* two decimal digits at positions i and i+1 of a string, read as int() does
TwoDigits(str, i) == 10 * DigitVal(CharAt(str, i)) + DigitVal(CharAt(str, i + 1))

\* the pattern \[(\d{1,2}):(\d{2})\] tried at position i: the length of the
\* match (0 when it fails) and the two groups converted with int()
MatchAt(str, i) ==
    LET tail(j) ==      \* ":" at j, two digits and "]" after it
            /\ CharAt(str, j) = ":"
            /\ IsDigit(CharAt(str, j + 1)) /\ IsDigit(CharAt(str, j + 2))
            /\ CharAt(str, j + 3) = "]"
    IN IF CharAt(str, i) # "[" THEN [len |-> 0]
       ELSE IF IsDigit(CharAt(str, i + 1)) /\ IsDigit(CharAt(str, i + 2)) /\ tail(i + 3)
       THEN [len |-> 7, minutes |-> TwoDigits(str, i + 1), seconds |-> TwoDigits(str, i + 4)]
       ELSE IF IsDigit(CharAt(str, i + 1)) /\ tail(i + 2)
       THEN [len |-> 6, minutes |-> DigitVal(CharAt(str, i + 1)),
             seconds |-> TwoDigits(str, i + 3)]
       ELSE [len |-> 0]

\* re.findall(pattern, response): the non-overlapping matches, left to right,
\* each already converted to minutes * 60 + seconds (ai_service.py 162-166)
RECURSIVE FindAll(_, _)
FindAll(str, i) ==
    IF i > Len(str) THEN <<>>
    ELSE LET m == MatchAt(str, i)
         IN IF m.len = 0 THEN FindAll(str, i + 1)
            ELSE <<m.minutes * 60 + m.seconds>> \o FindAll(str, i + m.len)

Abs(x) == IF x < 0 THEN -x ELSE x

\* min(available_timestamps, key=lambda x: abs(x - timestamp)): the first
\* element of the list at the least distance
Closest(available_timestamps, timestamp) ==
    LET least(i) == \A j \in 1..Len(available_timestamps) :
                       Abs(available_timestamps[i] - timestamp)
                          <= Abs(available_timestamps[j] - timestamp)
        first == CHOOSE i \in 1..Len(available_timestamps) :
                    least(i) /\ \A h \in 1..(i - 1) : ~least(h)
    IN available_timestamps[first]

\* an extraction that accepts the closest candidate at any distance
_extract_timestamps_any_distance(response, available_timestamps) ==
    LET matches == FindAll(response, 1)
    IN IF available_timestamps = <<>> THEN {}
       ELSE { Closest(available_timestamps, matches[i]) : i \in 1..Len(matches) }

\* AIService._extract_timestamps (ai_service.py 158-173): the values of
\* set(timestamps); the list built from the set may come in any order
_extract_timestamps(response, available_timestamps) ==
    LET matches == FindAll(response, 1)
        kept == { i \in 1..Len(matches) :
                     /\ available_timestamps # <<>>
                     /\ Abs(Closest(available_timestamps, matches[i]) - matches[i])
                           <= TIMESTAMP_TOLERANCE }
    IN { Closest(available_timestamps, matches[i]) : i \in kept }

\* list(a_set): the elements of the set once each, in an order the caller
\* cannot rely on
ListsOf(S) ==
    { q \in [1..Cardinality(S) -> S] : \A i, j \in 1..Cardinality(S) : q[i] = q[j] => i = j }

\* response texts a text model may produce and timestamp lists a context
\* may carry
ResponseTexts ==
    {"", "no reference", "see [00:05]", "[05:00]", "[0:35] and [00:05]",
     "[00:05] then [00:05]", "at 00:05", "[1:5]", "[00:75]", "[123:45]",
     "[00:00]", "[00:20][00:02]"}
AvailableLists ==
    {<<>>, <<0, 5, 40>>, <<40, 5, 0>>, <<0, 10>>, <<10, 0>>, <<5, 5>>, <<100>>,
     <<0>>, <<330, 270>>}

ExtractArgs ==
    { [fn |-> "_extract_timestamps", pc |-> "called", response |-> r,
       available_timestamps |-> a] : r \in ResponseTexts, a \in AvailableLists }

\* one call of AIService._extract_timestamps
ExtractTimestamps ==
    /\ helper.fn = "_extract_timestamps"
    /\ helper.pc = "called"
    /\ \E result \in ListsOf(_extract_timestamps(helper.response,
                                                   helper.available_timestamps)) :
          helper' = [helper EXCEPT !.pc = "returned"] @@ [result |-> result]
    /\ UNCHANGED <<processing_status, storage, tasks, loop, collection, rag, cap>>

MaxPseudoFrames == 3  \* frames handed to one pseudo-transcript call

FRAME_MISSING == "frame file missing"

\* VideoProcessor.analyze_video_frames (video_processor.py 426-464): a frame
\* whose file is missing is left out, every other frame gets the description
\* analyze_image returned for it
analyze_video_frames(frames, descriptions) ==
    LET present == SelectSeq([i \in 1..Len(frames) |-> i],
                             LAMBDA i : descriptions[i] # FRAME_MISSING)
    IN [j \in 1..Len(present) |->
          [frames[present[j]] EXCEPT !.scene_description = descriptions[present[j]]]]

\* VideoProcessor.generate_pseudo_transcript_from_frames (319-353)
generate_pseudo_transcript_from_frames(video_id, frames, descriptions) ==
    IF frames = <<>> THEN <<>>
    ELSE LET analyzed_frames == analyze_video_frames(frames, descriptions)
         IN IF analyzed_frames = <<>> THEN <<>>
            ELSE PseudoChunksFrom(video_id, SortByTimestamp(analyzed_frames), 1)

\* frame lists in any timestamp order, with what the analysis does to each
FrameTimestamps == {0, 4, 9}
PseudoArgs ==
    UNION { { [fn |-> "generate_pseudo_transcript_from_frames", pc |-> "called",
               video_id |-> "u1",
               frames |-> [i \in 1..n |-> FrameData("u1", i - 1, ts[i])],
               descriptions |-> ds] :
              ts \in [1..n -> FrameTimestamps],
              ds \in [1..n -> {FRAME_MISSING, "", ANALYSIS_OK}] } :
            n \in 0..MaxPseudoFrames }

\* one call of VideoProcessor.generate_pseudo_transcript_from_frames
PseudoTranscript ==
    /\ helper.fn = "generate_pseudo_transcript_from_frames"
    /\ helper.pc = "called"
    /\ helper' = [helper EXCEPT !.pc = "returned"] @@
                 [result |-> generate_pseudo_transcript_from_frames(
                                 helper.video_id, helper.frames, helper.descriptions)]
    /\ UNCHANGED <<processing_status, storage, tasks, loop, collection, rag, cap>>

InitHelper ==
    /\ processing_status = EmptyDict
    /\ storage = [v \in VideoIds |-> NoStorage]
    /\ tasks = [t \in Tasks |-> IdleTask]
    /\ loop = 0
    /\ collection = EmptyDict
    /\ rag = NoRag
    /\ cap = NoCap
    /\ helper \in ExtractArgs \cup PseudoArgs

NextHelper ==
    \/ ExtractTimestamps
    \/ PseudoTranscript

SpecHelper == InitHelper /\ [][NextHelper]_vars

-----------------------------------------------------------------------------
(* The answer path: the chat handlers, RAGService.query and                *)
(* AIService.chat_with_video over a store that indexing has filled.        *)
(* Confidence is kept in thousandths.                                      *)

CONFIDENCE_NOT_FOUND == 0
CONFIDENCE_WITH_CONTEXT == 800
CONFIDENCE_NO_CONTEXT == 300
CONFIDENCE_NO_CONTENT == 1000
CONFIDENCE_CHAT_NOT_FOUND == 800
CONFIDENCE_NO_TRANSCRIPT == 700
CONFIDENCE_SOURCES == 800
CONFIDENCE_NO_SOURCES == 200
CONTEXT_MAX_RESULTS == 5
CHAT_TRANSCRIPT_LIMIT == 5
CHAT_FRAME_LIMIT == 3

RECURSIVE InsertAscending(_, _)
InsertAscending(x, sorted) ==
    IF sorted = <<>> THEN <<x>>
    ELSE IF x < Head(sorted) THEN <<x>> \o sorted
    ELSE <<Head(sorted)>> \o InsertAscending(x, Tail(sorted))

\* sorted(v)
RECURSIVE SortAscending(_)
SortAscending(v) ==
    IF v = <<>> THEN <<>>
    ELSE InsertAscending(v[Len(v)], SortAscending(SubSeq(v, 1, Len(v) - 1)))

\* a validator that lets the list through as it came
validate_timestamps_as_given(v) ==
    IF \E i \in 1..Len(v) : v[i] < 0 THEN Raised ELSE Returned(v)

\* ChatResponse.validate_timestamps and QueryResult.validate_timestamps
\* (video_data.py 173-179, 207-213): a negative value raises, else sorted(v)
validate_timestamps(v) ==
    IF \E i \in 1..Len(v) : v[i] < 0 THEN Raised ELSE Returned(SortAscending(v))

\* a slice that keeps the whole list
Prefix_whole_list(q, n) == q

\* q[:n]
Prefix(q, n) == SubSeq(q, 1, IF Len(q) < n THEN Len(q) ELSE n)

\* RAGService.retrieve_relevant_content (rag_service.py 187-248) for the
\* ranked record ids the store returns: the transcript chunks and the frames
\* rebuilt from the records, nothing when the store query fails
retrieve_relevant_content(coll, ranked, max_results, retrieval_fails) ==
    LET top == IF retrieval_fails THEN <<>> ELSE Prefix(ranked, max_results)
        is_transcript(k) == coll[k].content_type = "transcript"
        is_visual(k) == coll[k].content_type = "visual"
        transcripts == SelectSeq(top, is_transcript)
        visuals == SelectSeq(top, is_visual)
    IN [transcript_chunks |->
           [i \in 1..Len(transcripts) |->
               TranscriptChunk(coll[transcripts[i]].ref, coll[transcripts[i]].document,
                               coll[transcripts[i]].start_time,
                               coll[transcripts[i]].end_time)],
        frames |->
           [i \in 1..Len(visuals) |->
               [id |-> coll[visuals[i]].ref, timestamp |-> coll[visuals[i]].start_time,
                scene_description |-> coll[visuals[i]].document]]]

\* what the text model does with a prompt: it raises, or returns a text
GENERATION_RAISES == "generate_content raises"
AnswerTexts == {"no reference", "[00:00]", "[00:01] then [00:00]", "[05:00]"}
GenerationOutcomes == {GENERATION_RAISES} \cup AnswerTexts

AI_NOT_AVAILABLE == "AI chat not available. Please configure Gemini API key."
AI_ERROR == "Sorry, I encountered an error: "

\* AIService.chat_with_video (ai_service.py 96-156): the response text, the
\* values of the extracted timestamp list, and whether generate_content was
\* called
ai_chat_with_video(text_model, generation, transcript_chunks, frames) ==
    LET chunks == Prefix(transcript_chunks, CHAT_TRANSCRIPT_LIMIT)
        described == SelectSeq(Prefix(frames, CHAT_FRAME_LIMIT), IsDescribed)
        timestamps == [i \in 1..Len(chunks) |-> chunks[i].start_time]
                      \o [i \in 1..Len(described) |-> described[i].timestamp]
    IN IF ~text_model
       THEN [response |-> AI_NOT_AVAILABLE, timestamps |-> {}, generated |-> FALSE]
       ELSE IF generation = GENERATION_RAISES
       THEN [response |-> AI_ERROR \o generation, timestamps |-> {}, generated |-> TRUE]
       ELSE [response |-> generation,
             timestamps |-> _extract_timestamps(generation, timestamps),
             generated |-> TRUE]

\* the questions a chat request may carry
Messages == {"what happens?", "who speaks?"}

\* the stores the answer path runs over: what index_video_content leaves
\* after indexing the transcript of the first video, then of the second
AnswerStores ==
    LET first == CHOOSE v \in VideoIds : v \in UploadIds
        second == CHOOSE v \in VideoIds : v # first
        indexed(coll, v, chunks) ==
            index_video_content(coll, v, chunks, <<>>, FALSE, FALSE).collection
    IN { indexed(indexed(EmptyDict, first, c1), second, c2) :
            c1 \in ChunkInputs(first), c2 \in ChunkInputs(second) }

\* the rankings the store may return for a set of matching records
Rankings(matches) == ListsOf(matches)

\* POST /message (chat.py 46-95)
send_chat_message ==
    /\ rag = NoRag
    /\ \E video_id \in RequestIds, message \in Messages, store_fails \in BOOLEAN,
       retrieval_fails \in BOOLEAN, text_model \in BOOLEAN,
       generation \in GenerationOutcomes :
       LET available_videos == get_available_videos(collection, store_fails)
           target_video_id == _get_video_id_match(video_id, available_videos)
           q == StoreQuery(target_video_id)
           request == [op |-> "message", video_id |-> video_id, message |-> message,
                       available |-> available_videos, target |-> target_video_id]
       IN /\ IF target_video_id = "None"
             THEN rag' = request @@
                         [kind |-> "not_found", listed |-> available_videos,
                          queries |-> <<>>, context |-> 0, generated |-> FALSE,
                          generation |-> "None", response |-> "not found",
                          timestamp_references |-> <<>>,
                          confidence |-> CONFIDENCE_NOT_FOUND]
             ELSE \E ranked \in Rankings(QueryMatches(collection, q)) :
                  LET context == retrieve_relevant_content(collection, ranked,
                                     CONTEXT_MAX_RESULTS, retrieval_fails)
                      chat == ai_chat_with_video(text_model, generation,
                                  context.transcript_chunks, context.frames)
                      units == Len(context.transcript_chunks) + Len(context.frames)
                  IN \E timestamp_refs \in ListsOf(chat.timestamps) :
                     LET validated == validate_timestamps(timestamp_refs)
                     IN rag' = request @@
                               [kind |-> IF validated.ok THEN "answer" ELSE "error",
                                listed |-> {}, queries |-> <<q>>, context |-> units,
                                generated |-> chat.generated,
                                generation |-> IF chat.generated THEN generation
                                               ELSE "None",
                                response |-> chat.response,
                                timestamp_references |-> validated.val,
                                confidence |-> IF units > 0
                                               THEN CONFIDENCE_WITH_CONTEXT
                                               ELSE CONFIDENCE_NO_CONTEXT]
          /\ UNCHANGED <<processing_status, storage, tasks, loop, collection, cap, helper>>

\* the fields SearchResult requires (video_data.py 111-119) and the keywords
\* RAGService.query passes when it builds one (rag_service.py 476-482)
SearchResultRequired == {"id", "content", "score", "video_id", "type"}
SearchResultPassed == {"content", "timestamp", "confidence", "video_id", "metadata"}

APOLOGY == "I couldn't find relevant content in the video to answer your question: '"
Apology(message) == APOLOGY \o message \o "'"

\* RAGService.query (rag_service.py 425-507) with _generate_response
\* (509-537).  The filter is set only for a non-empty video_id.  Building a
\* source from a matching record raises when a required SearchResult field
\* is not passed, and query re-raises.  _generate_response hands
\* chat_with_video an empty context and drops the timestamps it returns;
\* QueryResult is built without timestamp_references.
query(coll, video_id, message, text_model, generation) ==
    LET q == StoreQuery(IF video_id # "" THEN video_id ELSE "None")
        matches == QueryMatches(coll, q)
        chat == ai_chat_with_video(text_model, generation, <<>>, <<>>)
        validated == validate_timestamps(<<>>)
    IN IF matches # {} /\ ~(SearchResultRequired \subseteq SearchResultPassed)
       THEN [issued |-> q, raised |-> TRUE, context |-> Cardinality(matches),
             generated |-> FALSE, response |-> "None", sources |-> 0,
             timestamp_references |-> <<>>, confidence |-> 0]
       ELSE [issued |-> q, raised |-> FALSE, context |-> Cardinality(matches),
             generated |-> matches # {} /\ chat.generated,
             response |-> IF matches # {} THEN chat.response ELSE Apology(message),
             sources |-> Cardinality(matches),
             timestamp_references |-> validated.val,
             confidence |-> IF matches # {} THEN CONFIDENCE_SOURCES
                            ELSE CONFIDENCE_NO_SOURCES]

\* one call of RAGService.query
QueryCall ==
    /\ rag = NoRag
    /\ \E video_id \in RequestIds, message \in Messages, text_model \in BOOLEAN,
       generation \in GenerationOutcomes :
       LET result == query(collection, video_id, message, text_model, generation)
       IN /\ rag' = [op |-> "query", video_id |-> video_id, message |-> message,
                     target |-> video_id, text_model |-> text_model,
                     kind |-> IF result.raised THEN "error" ELSE "answer",
                     queries |-> <<result.issued>>, context |-> result.context,
                     generated |-> result.generated, generation |-> generation,
                     response |-> result.response,
                     timestamp_references |-> result.timestamp_references,
                     confidence |-> result.confidence]
          /\ UNCHANGED <<processing_status, storage, tasks, loop, collection, cap, helper>>

\* POST /chat (chat.py 123-203)
chat_with_video ==
    /\ rag = NoRag
    /\ \E video_id \in RequestIds, message \in Messages, stats_fail \in BOOLEAN,
       store_fails \in BOOLEAN, video_stats_fail \in BOOLEAN, text_model \in BOOLEAN,
       generation \in GenerationOutcomes :
       LET total_embeddings == get_stats(collection, stats_fail)
           available_videos == get_available_videos(collection, store_fails)
           target_video_id == _get_video_id_match(video_id, available_videos)
           base == [op |-> "chat", video_id |-> video_id, message |-> message,
                    available |-> available_videos, target |-> "None",
                    text_model |-> FALSE,
                    kind |-> "no_content", listed |-> {}, queries |-> <<>>,
                    context |-> 0, generated |-> FALSE, generation |-> "None",
                    response |-> "no video content", timestamp_references |-> <<>>,
                    confidence |-> CONFIDENCE_NO_CONTENT]
           asked == IF video_id # "" THEN target_video_id ELSE video_id
           result == query(collection, asked, message, text_model, generation)
           validated == validate_timestamps(result.timestamp_references)
       IN /\ rag' =
               IF total_embeddings = 0 THEN base
               ELSE IF video_id # "" /\ target_video_id = "None"
               THEN [base EXCEPT !.kind = "not_found", !.listed = available_videos,
                                 !.response = "not found",
                                 !.confidence = CONFIDENCE_CHAT_NOT_FOUND]
               ELSE IF video_id # ""
                       /\ get_video_stats(collection, target_video_id, video_stats_fail) = 0
               THEN [base EXCEPT !.kind = "no_transcript", !.target = target_video_id,
                                 !.response = "no transcript content",
                                 !.confidence = CONFIDENCE_NO_TRANSCRIPT]
               ELSE [base EXCEPT !.kind = IF result.raised \/ ~validated.ok
                                          THEN "error" ELSE "answer",
                                 !.target = IF video_id # "" THEN target_video_id
                                            ELSE "None",
                                 !.queries = <<result.issued>>,
                                 !.text_model = text_model,
                                 !.context = result.context,
                                 !.generated = result.generated,
                                 !.generation = generation,
                                 !.response = result.response,
                                 !.timestamp_references = validated.val,
                                 !.confidence = result.confidence]
          /\ UNCHANGED <<processing_status, storage, tasks, loop, collection, cap, helper>>

InitAnswer ==
    /\ processing_status = EmptyDict
    /\ storage = [v \in VideoIds |-> NoStorage]
    /\ tasks = [t \in Tasks |-> IdleTask]
    /\ loop = 0
    /\ collection \in AnswerStores
    /\ rag = NoRag
    /\ cap = NoCap
    /\ helper = NoCall

\* the response has gone out; the next request may come
AnswerReturn ==
    /\ rag # NoRag
    /\ rag' = NoRag
    /\ UNCHANGED <<processing_status, storage, tasks, loop, collection, cap, helper>>

NextAnswer ==
    \/ send_chat_message
    \/ chat_with_video
    \/ QueryCall
    \/ AnswerReturn

SpecAnswer == InitAnswer /\ [][NextAnswer]_vars

-----------------------------------------------------------------------------
(* The context of an answer on its own: what send_chat_message and         *)
(* AIService.chat_with_video put in the prompt, for retrieved lists and a  *)
(* history longer than the limits.                                         *)

MaxContextChunks == 6     \* transcript units handed to one call
MaxContextFrames == 4     \* frames handed to one call
MaxHistory == 6           \* turns of chat history in one request

CHAT_HISTORY_LIMIT == 5
PROMPT_HISTORY_LIMIT == 3

\* q[-n:]
Suffix(q, n) == SubSeq(q, IF Len(q) < n THEN 1 ELSE Len(q) - n + 1, Len(q))

\* chat.py 73-85 and ai_service.py 109-131: the transcript lines, the visual
\* lines and the history turns of the prompt, and the candidate timestamps
chat_context(transcript_chunks, frames, chat_history) ==
    LET conversation_history == Suffix(chat_history, CHAT_HISTORY_LIMIT)
        chunks == Prefix(transcript_chunks, CHAT_TRANSCRIPT_LIMIT)
        described == SelectSeq(Prefix(frames, CHAT_FRAME_LIMIT), IsDescribed)
    IN [transcript |-> chunks,
        visual |-> described,
        conversation |-> Suffix(conversation_history, PROMPT_HISTORY_LIMIT),
        timestamps |-> [i \in 1..Len(chunks) |-> chunks[i].start_time]
                       \o [i \in 1..Len(described) |-> described[i].timestamp]]

\* the lists a call may be given: chunk i starts at second i - 1, frame i
\* is at second 9 + i and may lack a description, turn i of the history is i
ContextArgs ==
    UNION { { [fn |-> "chat_context", pc |-> "called",
               transcript_chunks |->
                   [i \in 1..n |-> TranscriptChunk("u1_transcript_" \o ToString(i - 1),
                                                   "text " \o ToString(i - 1), i - 1, i)],
               frames |->
                   [i \in 1..m |-> [FrameData("u1", i - 1, 9 + i)
                                       EXCEPT !.scene_description = ds[i]]],
               chat_history |-> [i \in 1..h |-> i]] :
              ds \in [1..m -> {"", ANALYSIS_OK}], n \in 0..MaxContextChunks,
              h \in 0..MaxHistory } :
            m \in 0..MaxContextFrames }

\* one request of POST /message as far as the prompt
AssembleContext ==
    /\ helper.fn = "chat_context"
    /\ helper.pc = "called"
    /\ helper' = [helper EXCEPT !.pc = "returned"] @@
                 [result |-> chat_context(helper.transcript_chunks, helper.frames,
                                          helper.chat_history)]
    /\ UNCHANGED <<processing_status, storage, tasks, loop, collection, rag, cap>>

InitContext ==
    /\ processing_status = EmptyDict
    /\ storage = [v \in VideoIds |-> NoStorage]
    /\ tasks = [t \in Tasks |-> IdleTask]
    /\ loop = 0
    /\ collection = EmptyDict
    /\ rag = NoRag
    /\ cap = NoCap
    /\ helper \in ContextArgs

NextContext == AssembleContext

SpecContext == InitContext /\ [][NextContext]_vars

-----------------------------------------------------------------------------
(* Semantic search and content around a timestamp (rag_service.py 250-375) *)
(* on their own: each call runs over a store the indexer has left.         *)

FALLBACK_DIMENSION == 384     \* the zero-vector of generate_text_embeddings
MODEL_DIMENSION == 768        \* a vector of models/text-embedding-004
DUMMY_DIMENSION == 384        \* the query vector of get_content_around_timestamp
SEARCH_MAX_RESULTS == 20
AROUND_MAX_RESULTS == 1000

\* the number of components of an embedding
Dimension(embedding) ==
    IF embedding = ZERO_VECTOR THEN FALLBACK_DIMENSION ELSE MODEL_DIMENSION

\* the dimension the collection was created with by its first add; 0 while
\* the collection is empty
CollectionDimension(coll) ==
    IF DOMAIN coll = {} THEN 0
    ELSE Dimension(coll[CHOOSE k \in DOMAIN coll : TRUE].embedding)

\* DatabaseManager.query_embeddings: collection.query raises on a query vector
\* of another dimension than the collection's, and the exception is re-raised
QueryRaises(coll, dimension) ==
    CollectionDimension(coll) \notin {0, dimension}

\* the stores the search calls run over: what index_video_content leaves
\* after indexing the transcript of the first video, then of the second, with
\* the embedding capability working or not
SearchStores ==
    LET first == CHOOSE v \in VideoIds : v \in UploadIds
        second == CHOOSE v \in VideoIds : v # first
        indexed(coll, v, chunks, embedding_fails) ==
            index_video_content(coll, v, chunks, <<>>, embedding_fails, FALSE).collection
    IN { indexed(indexed(EmptyDict, first, c1, f), second, c2, f) :
            c1 \in ChunkInputs(first), c2 \in ChunkInputs(second), f \in BOOLEAN }

\* cosine distances the store may report, in thousandths
Distances == {0, 500, 1000, 1500}

\* the filter of search_similar_content (257-262)
SearchMatches(coll, video_ids, content_type) ==
    {k \in DOMAIN coll : /\ video_ids = {} \/ coll[k].video_id \in video_ids
                         /\ content_type = "None" \/ coll[k].content_type = content_type}

\* what the store may answer to a query matching the records of M: the
\* nearest n_results of them, nearest first, each with its distance
StoreAnswers(M, n_results) ==
    LET n == IF Cardinality(M) < n_results THEN Cardinality(M) ELSE n_results
    IN { [i \in 1..n |-> [id |-> q[i], distance |-> d[i]]] :
            q \in ListsOf(M),
            d \in {e \in [1..n -> Distances] : \A i, j \in 1..n : i <= j => e[i] <= e[j]} }

\* rag_service.py 285: max(0, 1 - distance), in thousandths
relevance_score(distance) == IF 1000 - distance < 0 THEN 0 ELSE 1000 - distance

\* the keyword arguments search_similar_content passes to SearchResult (292-300)
SearchResultPassedBySearch ==
    {"video_id", "timestamp", "relevance_score", "content_type", "content",
     "thumbnail_path", "frame_path"}

\* list.sort(key=relevance_score, reverse=True): descending and stable
RECURSIVE InsertByScore(_, _)
InsertByScore(result, sorted) ==
    IF sorted = <<>> THEN <<result>>
    ELSE IF result.relevance_score > Head(sorted).relevance_score THEN <<result>> \o sorted
    ELSE <<Head(sorted)>> \o InsertByScore(result, Tail(sorted))

RECURSIVE SortByScore(_)
SortByScore(results) ==
    IF results = <<>> THEN <<>>
    ELSE InsertByScore(results[Len(results)],
                       SortByScore(SubSeq(results, 1, Len(results) - 1)))

\* RAGService.search_similar_content (250-311) for the answer of the store.
\* SearchResult(...) raises ValidationError when a required field is not
\* passed; like a failure of the store it is caught at 309 and the call
\* returns the empty list.
search_similar_content(coll, answer, query_raises) ==
    LET built == [i \in 1..Len(answer) |->
                    LET metadata == coll[answer[i].id]
                    IN [video_id |-> metadata.video_id,
                        timestamp |-> metadata.start_time,
                        relevance_score |-> relevance_score(answer[i].distance),
                        content_type |-> metadata.content_type,
                        content |-> metadata.document]]
    IN IF query_raises THEN <<>>
       ELSE IF answer # <<>> /\ ~(SearchResultRequired \subseteq SearchResultPassedBySearch)
       THEN <<>>
       ELSE SortByScore(built)

\* GET /semantic (search.py 62-97) calling search_similar_content
SearchSimilar ==
    /\ rag = NoRag
    /\ \E video_ids \in SUBSET VideoIds, content_type \in {"None", "transcript", "visual"},
          embedding_fails \in BOOLEAN :
       LET dimension == IF embedding_fails THEN FALLBACK_DIMENSION ELSE MODEL_DIMENSION
           query_raises == QueryRaises(collection, dimension)
           M == SearchMatches(collection, video_ids, content_type)
       IN \E answer \in (IF query_raises THEN {<<>>} ELSE StoreAnswers(M, SEARCH_MAX_RESULTS)) :
            rag' = [op |-> "search", video_ids |-> video_ids,
                    content_type |-> content_type, query_raises |-> query_raises,
                    answer |-> answer,
                    result |-> search_similar_content(collection, answer, query_raises)]
    /\ UNCHANGED <<processing_status, storage, tasks, loop, collection, cap, helper>>

\* transcript_chunks.sort(key=start_time): ascending and stable
RECURSIVE InsertByStart(_, _)
InsertByStart(chunk, sorted) ==
    IF sorted = <<>> THEN <<chunk>>
    ELSE IF chunk.start_time < Head(sorted).start_time THEN <<chunk>> \o sorted
    ELSE <<Head(sorted)>> \o InsertByStart(chunk, Tail(sorted))

RECURSIVE SortByStart(_)
SortByStart(chunks) ==
    IF chunks = <<>> THEN <<>>
    ELSE InsertByStart(chunks[Len(chunks)], SortByStart(SubSeq(chunks, 1, Len(chunks) - 1)))

Max0(x) == IF x < 0 THEN 0 ELSE x

\* rag_service.py 341, 353: a transcript unit is kept when its start and its
\* end are inside the window, a visual unit when its timestamp is
InWindow(record, start_time, end_time) ==
    IF record.content_type = "transcript"
    THEN record.start_time >= start_time /\ record.end_time <= end_time
    ELSE start_time <= record.start_time /\ record.start_time <= end_time

\* RAGService.get_content_around_timestamp (311-375) for the order the store
\* returns the records of the video in; a failure of the store query is
\* caught at 373 and the call returns two empty lists
get_content_around_timestamp(coll, ordered, timestamp, window_seconds, query_raises) ==
    LET start_time == Max0(timestamp - window_seconds)
        end_time == timestamp + window_seconds
        all_results == IF query_raises THEN <<>> ELSE Prefix(ordered, AROUND_MAX_RESULTS)
        kept_transcript(k) == /\ coll[k].content_type = "transcript"
                              /\ InWindow(coll[k], start_time, end_time)
        kept_visual(k) == /\ coll[k].content_type = "visual"
                          /\ InWindow(coll[k], start_time, end_time)
        transcripts == SelectSeq(all_results, kept_transcript)
        visuals == SelectSeq(all_results, kept_visual)
    IN [transcript_chunks |->
           SortByStart([i \in 1..Len(transcripts) |->
               TranscriptChunk(coll[transcripts[i]].ref, coll[transcripts[i]].document,
                               coll[transcripts[i]].start_time,
                               coll[transcripts[i]].end_time)]),
        frames |->
           SortByTimestamp([i \in 1..Len(visuals) |->
               [id |-> coll[visuals[i]].ref, timestamp |-> coll[visuals[i]].start_time,
                scene_description |-> coll[visuals[i]].document]])]

\* the timestamps and windows a call may carry, in seconds
AroundTimestamps == 0..2
AroundWindows == {0, 1, 30}

\* one call of get_content_around_timestamp
ContentAround ==
    /\ rag = NoRag
    /\ \E video_id \in VideoIds, timestamp \in AroundTimestamps,
          window_seconds \in AroundWindows :
       LET query_raises == QueryRaises(collection, DUMMY_DIMENSION)
       IN \E ordered \in ListsOf(QueryMatches(collection, StoreQuery(video_id))) :
            rag' = [op |-> "around", video_id |-> video_id, timestamp |-> timestamp,
                    window_seconds |-> window_seconds, query_raises |-> query_raises,
                    result |-> get_content_around_timestamp(collection, ordered, timestamp,
                                                            window_seconds, query_raises)]
    /\ UNCHANGED <<processing_status, storage, tasks, loop, collection, cap, helper>>

\* the call returns and the next one may start
SearchReturn ==
    /\ rag # NoRag
    /\ rag' = NoRag
    /\ UNCHANGED <<processing_status, storage, tasks, loop, collection, cap, helper>>

InitSearch ==
    /\ processing_status = EmptyDict
    /\ storage = [v \in VideoIds |-> NoStorage]
    /\ tasks = [t \in Tasks |-> IdleTask]
    /\ loop = 0
    /\ collection \in SearchStores
    /\ rag = NoRag
    /\ cap = NoCap
    /\ helper = NoCall

NextSearch ==
    \/ SearchSimilar
    \/ ContentAround
    \/ SearchReturn

SpecSearch == InitSearch /\ [][NextSearch]_vars

-----------------------------------------------------------------------------
(* The acceptance of videos on its own: POST /upload and POST /youtube     *)
(* with what they answer, deletions, and restarts that end the runs.       *)

\* one request of POST /youtube and its answer
AcceptYoutube ==
    /\ loop = 0
    /\ FreeSlots # {}
    /\ \E url \in Urls, info_ok \in BOOLEAN, downloaded \in BOOLEAN :
         /\ YoutubeAccept(url, info_ok, downloaded)
         /\ helper' = [fn |-> "process_youtube_video", url |-> url,
                       code |-> YoutubeResponse(url, info_ok)]
    /\ UNCHANGED <<processing_status, loop, collection, rag, cap>>

NextAccept ==
    \/ AcceptYoutube
    \/ \E v \in VideoIds : upload_video(v)
    \/ \E v \in VideoIds : delete_video(v)
    \/ Restart

SpecAccept == Init /\ [][NextAccept]_vars

-----------------------------------------------------------------------------
(* Frame sampling on its own: VideoProcessor.extract_video_frames          *)
(* (video_processor.py 354-424) over videos of bounded length.  Rates are   *)
(* in percent, timestamps in thousandths of a second.                      *)

MaxTotalFrames == 12          \* every length up to this one is sampled
DEFAULT_MAX_FRAMES == 20
DEFAULT_SAMPLE_RATE == 10     \* sample_rate = 0.1
FALLBACK_SAMPLE_RATE == 5     \* sample_rate = 0.05, the call of the fallback
DEFAULT_FPS == 30

\* lengths of longer videos, for which the budget of 20 is what limits
LongVideos == {100, 328, 400}
TotalFrameCounts == (0..MaxTotalFrames) \cup LongVideos
SampleBudgets == {1, 3, DEFAULT_MAX_FRAMES}
SampleRates == {FALLBACK_SAMPLE_RATE, DEFAULT_SAMPLE_RATE, 100}

\* a sampler that takes every frame the rate selects, whatever the budget
frames_to_sample_over_budget(total_frames, max_frames, sample_rate) ==
    IF (total_frames * sample_rate) \div 100 > 1
    THEN (total_frames * sample_rate) \div 100 ELSE 1

\* video_processor.py 381: min(max_frames, max(1, int(total_frames *
\* sample_rate))).  For the rates and lengths above the double product
\* truncates to the exact floor.
frames_to_sample(total_frames, max_frames, sample_rate) ==
    LET by_rate == (total_frames * sample_rate) \div 100
        at_least_one == IF by_rate > 1 THEN by_rate ELSE 1
    IN IF max_frames < at_least_one THEN max_frames ELSE at_least_one

\* video_processor.py 382 and 389: interval = total_frames / n is a double
\* and int(i * interval) truncates a double product.  The product is the
\* exact i * total_frames / n up to one rounding error, so the truncation is
\* the exact floor unless the exact value is an integer and the product fell
\* just below it.  Over the lengths, budgets and rates above that happens
\* once: 15 * (328 / 20) = 245.99999999999997.
RoundsBelow == {<<328, 20, 15>>}

sample_position(i, total_frames, n) ==
    IF <<total_frames, n, i>> \in RoundsBelow
    THEN (i * total_frames) \div n - 1
    ELSE (i * total_frames) \div n

\* video_processor.py 354-424.  unreadable: the positions at which cap.read()
\* fails, whose frames are skipped (391-394).  Gives the number of positions
\* selected, the positions, and the frames returned.
extract_video_frames(video_id, total_frames, fps, max_frames, sample_rate, unreadable) ==
    IF total_frames = 0
    THEN [n |-> 0, positions |-> <<>>, frames |-> <<>>]
    ELSE LET n == frames_to_sample(total_frames, max_frames, sample_rate)
             positions == [k \in 1..n |-> sample_position(k - 1, total_frames, n)]
             read == SelectSeq([k \in 1..n |-> k], LAMBDA k : positions[k] \notin unreadable)
         IN [n |-> n,
             positions |-> positions,
             frames |-> [j \in 1..Len(read) |->
                            FrameData(video_id, read[j] - 1,
                                      (positions[read[j]] * 1000) \div fps)]]

\* the calls considered: any length, budget and rate above, the first frames
\* of the file readable or not
SamplingArgs ==
    { [fn |-> "extract_video_frames", pc |-> "called", video_id |-> "u1",
       total_frames |-> total_frames, fps |-> DEFAULT_FPS,
       max_frames |-> max_frames, sample_rate |-> sample_rate,
       unreadable |-> unreadable] :
      total_frames \in TotalFrameCounts, max_frames \in SampleBudgets,
      sample_rate \in SampleRates, unreadable \in SUBSET {0, 1} }

\* one call of extract_video_frames
ExtractVideoFrames ==
    /\ helper.fn = "extract_video_frames"
    /\ helper.pc = "called"
    /\ helper' = [helper EXCEPT !.pc = "returned"] @@
                 [result |-> extract_video_frames(helper.video_id, helper.total_frames,
                                                  helper.fps, helper.max_frames,
                                                  helper.sample_rate, helper.unreadable)]
    /\ UNCHANGED <<processing_status, storage, tasks, loop, collection, rag, cap>>

InitSample ==
    /\ processing_status = EmptyDict
    /\ storage = [v \in VideoIds |-> NoStorage]
    /\ tasks = [t \in Tasks |-> IdleTask]
    /\ loop = 0
    /\ collection = EmptyDict
    /\ rag = NoRag
    /\ cap = NoCap
    /\ helper \in SamplingArgs

NextSample == ExtractVideoFrames

SpecSample == InitSample /\ [][NextSample]_vars

-----------------------------------------------------------------------------
(* Deletion on its own, over a store that holds records: the indexer fills  *)
(* the store, uploads and status reads create files and tracker entries.    *)
(* The runs that uploads schedule are left waiting.                         *)

\* one request of DELETE /{video_id} and its answer
DeleteRequest(video_id, delete_fails) ==
    /\ loop = 0
    /\ DeleteEffect(video_id, delete_fails)
    /\ helper' = [fn |-> "delete_video", video_id |-> video_id,
                  code |-> DeleteResponse(delete_fails)]
    /\ UNCHANGED <<tasks, loop, rag, cap>>

NextDelete ==
    \/ IndexContent
    \/ \E v \in VideoIds, delete_fails \in BOOLEAN : DeleteRequest(v, delete_fails)
    \/ \E v \in VideoIds : upload_video(v)
    \/ \E v \in VideoIds : get_processing_status(v)

SpecDelete == Init /\ [][NextDelete]_vars

-----------------------------------------------------------------------------
(* Runs under the scheduling of the event loop.  The loop keeps its ready   *)
(* tasks in a FIFO queue, so a run that is ready again and again is resumed: *)
(* strong fairness on the steps of each run.  Requests and restarts of the  *)
(* process are under no obligation to happen.                               *)

\* a run without the except clause: an exception leaves it where it was raised
process_video_pipeline_without_handler(t) ==
    \/ PipelineStart(t)
    \/ AnalyzeFrameWithAI(t)
    \/ TranscriptStage(t)
    \/ ContentStage(t)
    \/ DescribeFrame(t)
    \/ DescribeDone(t)
    \/ ChapterStage(t)

\* any step of the run in slot t (process_video_pipeline, videos.py 51-230)
process_video_pipeline(t) ==
    \/ PipelineStart(t)
    \/ AnalyzeFrameWithAI(t)
    \/ TranscriptStage(t)
    \/ ContentStage(t)
    \/ DescribeFrame(t)
    \/ DescribeDone(t)
    \/ ChapterStage(t)
    \/ FailureHandler(t)

NextRuns ==
    \/ \E t \in Tasks : process_video_pipeline(t)
    \/ \E v \in VideoIds : delete_video(v)
    \/ \E url \in Urls : process_youtube_video(url)
    \/ \E v \in VideoIds : process_specific_video(v)
    \/ Restart

SpecRuns ==
    /\ Init
    /\ [][NextRuns]_vars
    /\ \A t \in Tasks : SF_vars(process_video_pipeline(t))

-----------------------------------------------------------------------------
(* Properties *)

\* the step is one of run t, whose video still has the entry that run wrote
\* last: no other run, delete or restart has touched the entry in between
RunStep(t) ==
    /\ tasks[t].pc \notin {"idle", "scheduled"}
    /\ tasks'[t] # tasks[t]
    /\ HasEntry(processing_status, tasks[t].vid)
    /\ processing_status[tasks[t].vid] = tasks[t].wrote

\* C1: along one pipeline run with nothing else writing the video's entry,
\* every write that leaves the entry at status 'processing' (every write from
\* the start checkpoint up to the terminal one, the per-frame writes included)
\* leaves a progress at least as large as the one it replaces.
C1_ProgressNonDecreasing ==
    [][\A t \in Tasks :
          (/\ RunStep(t)
           /\ HasEntry(processing_status', tasks[t].vid)
           /\ processing_status'[tasks[t].vid].status = "processing")
          => processing_status'[tasks[t].vid].progress
                >= processing_status[tasks[t].vid].progress]_vars

\* a run is between two frames of the analysis loop and the entry holds a
\* per-frame progress strictly between the 0.3 and 0.6 checkpoints
C1_Witness ==
    \E t \in Tasks :
       /\ tasks[t].pc = "analyze"
       /\ HasEntry(processing_status, tasks[t].vid)
       /\ processing_status[tasks[t].vid] = tasks[t].wrote
       /\ processing_status[tasks[t].vid].progress > PROGRESS_FRAMES
       /\ processing_status[tasks[t].vid].progress < PROGRESS_TRANSCRIPT

\* the step ends run t (the process has not restarted: the video's entry is
\* there afterwards)
RunEnds(t) ==
    /\ tasks[t].pc \notin {"idle", "scheduled"}
    /\ tasks'[t].pc = "idle"
    /\ HasEntry(processing_status', tasks[t].vid)

\* C2: a run in which no external capability failed ends with the tracker
\* entry 'completed' at progress 1.0 and the persisted status 'completed'.
C2_CleanRunCompletes ==
    [][\A t \in Tasks :
          (RunEnds(t) /\ ~tasks[t].capfail)
          => /\ processing_status'[tasks[t].vid] = CompletedEntry
             /\ storage'[tasks[t].vid].status = "completed"]_vars

\* C3: once a stage has raised, the next step of the run is its last: no
\* stage runs, the tracker entry becomes 'failed' with the error text in its
\* message, and metadata.json, when it exists, gets status 'failed' and the
\* error.
C3_FailureRecorded ==
    [][\A t \in Tasks :
          (/\ tasks[t].pc = "except"
           /\ tasks'[t] # tasks[t]
           /\ HasEntry(processing_status', tasks[t].vid))
          => /\ tasks'[t] = IdleTask
             /\ processing_status'[tasks[t].vid].status = "failed"
             /\ processing_status'[tasks[t].vid].message
                   = "Processing failed: " \o tasks[t].err
             /\ storage[tasks[t].vid].meta
                   => /\ storage'[tasks[t].vid].status = "failed"
                      /\ storage'[tasks[t].vid].error = tasks[t].err]_vars

\* a run has failed and been recorded: no run of the video is left, the entry
\* is 'failed' with the error text and so is metadata.json
C3_Witness ==
    \E v \in VideoIds :
       /\ \A t \in Tasks : tasks[t].vid # v
       /\ HasEntry(processing_status, v)
       /\ processing_status[v].status = "failed"
       /\ processing_status[v].message = "Processing failed: " \o storage[v].error
       /\ storage[v].meta
       /\ storage[v].status = "failed"
       /\ storage[v].error \in {"TypeError", "AttributeError", "KeyError"}

\* strategy k yields nothing for provider p: it raises or returns no entry
YieldsNothing(p, k) == ~Strategy(p, k).ok \/ Strategy(p, k).val = <<>>

\* C4: when strategies 1 to 3 yield nothing and a caption track with entries
\* is available, strategy 4 is attempted and the call of _get_best_transcript
\* returns its entries.
C4_AnyTrackFallback ==
    (/\ cap.pc = "done"
     /\ cap.video_id # "None"
     /\ \A k \in 1..3 : YieldsNothing(cap.p, k)
     /\ ~cap.p.disabled
     /\ \E i \in 1..Len(TrackLangs) : TrackEntries(cap.p.tracks[i]) # <<>>)
    => /\ 4 \in {cap.attempted[i] : i \in 1..Len(cap.attempted)}
       /\ cap.transcript_list = _get_any_transcript(cap.p)

\* C5: a failure of the vector-store upsert inside index_video_content reaches
\* the caller as an exception (which the pipeline would record as 'failed').
C5_UpsertFailureEscalates ==
    (rag.op = "index" /\ rag.add_called /\ rag.upsert_fails) => rag.raised

\* the persisted statuses the code treats as terminal
TerminalStatus == {"completed", "failed"}

\* C6: the entry a status read (GET status or GET list) synthesizes for a video
\* without a tracker entry has progress 0.5 when the persisted status is
\* 'processing' and 1.0 when it is 'completed' or 'failed'.
C6_SynthesizedProgress ==
    \A v \in VideoIds :
       /\ StatusResponse(v).synthesized
            => /\ storage[v].status = "processing"
                    => StatusResponse(v).entry.progress = 500
               /\ storage[v].status \in TerminalStatus
                    => StatusResponse(v).entry.progress = 1000
       /\ (storage[v].dir /\ ListItem(v).synthesized)
            => /\ storage[v].status = "processing" => ListItem(v).progress = 500
               /\ storage[v].status \in TerminalStatus => ListItem(v).progress = 1000

\* two synthesized entries are in the tracker: one for a video persisted as
\* 'processing' at 0.5 and one for a video persisted as 'failed' at 1.0
C6_Witness ==
    \E v, w \in VideoIds :
       /\ HasEntry(processing_status, v) /\ HasEntry(processing_status, w)
       /\ processing_status[v].message = "Video is available"
       /\ storage[v].status = "processing"
       /\ processing_status[v].progress = 500
       /\ processing_status[w].message = "Video is available"
       /\ storage[w].status = "failed"
       /\ processing_status[w].progress = 1000

\* C7: the status a status read reports for a video without a tracker entry
\* is the persisted status.
C7_ReportedIsPersisted ==
    \A v \in VideoIds :
       /\ StatusResponse(v).synthesized
            => StatusResponse(v).entry.status = storage[v].status
       /\ (storage[v].dir /\ ListItem(v).synthesized)
            => ListItem(v).status = storage[v].status

\* C8: _get_video_id_match(r, A) is r when r is in A; else 'youtube_'+r when
\* that is in A; else r without its 'youtube_' prefix when r has it and the
\* rest is in A; else no match.  So the result is no match or a member of A.
C8_Resolution ==
    rag.op = "match" =>
       LET r == rag.video_id
           A == rag.video_ids
           prefixed == "youtube_" \o r
           has_prefix == Len(r) >= 8 /\ SubSeq(r, 1, 8) = "youtube_"
           stripped == SubSeq(r, 9, Len(r))
       IN /\ r \in A => rag.result = r
          /\ (r \notin A /\ prefixed \in A) => rag.result = prefixed
          /\ (r \notin A /\ prefixed \notin A /\ has_prefix /\ stripped \in A)
                => rag.result = stripped
          /\ (r \notin A /\ prefixed \notin A /\ ~(has_prefix /\ stripped \in A))
                => rag.result = "None"
          /\ rag.result = "None" \/ rag.result \in A

\* the request and its prefixed form are both available and the request
\* itself is the match
C8_Witness ==
    /\ rag.op = "match"
    /\ rag.video_id \in rag.video_ids
    /\ ("youtube_" \o rag.video_id) \in rag.video_ids
    /\ rag.result = rag.video_id

\* C9: a chat turn whose identifier does not resolve gets the not-found
\* response listing the available identifiers and sends no query to the store,
\* and every query a chat turn sends carries a video_id filter.
C9_ScopedOrNotFound ==
    rag.op \in {"message", "chat"} =>
       /\ _get_video_id_match(rag.video_id, rag.available) = "None"
             => /\ rag.kind = "not_found"
                /\ rag.listed = rag.available
                /\ rag.queries = <<>>
       /\ \A i \in 1..Len(rag.queries) : rag.queries[i].where # "None"

\* C10: index_video_content given no transcript unit and no described frame
\* returns false, does not call add_embeddings and leaves the store as it was.
C10_EmptyIndexIsNoOp ==
    (rag.op = "index" /\ rag.units = 0 /\ rag.described = 0)
    => /\ ~rag.result
       /\ ~rag.add_called
       /\ ~rag.changed

\* an empty indexing call made on a store that already holds records
C10_Witness ==
    /\ rag.op = "index"
    /\ rag.units = 0
    /\ rag.described = 0
    /\ ~rag.result
    /\ collection # EmptyDict

\* C11: index_video_content returns true for every batch that holds a
\* transcript unit or a described frame, the store accepting the upsert; it
\* returns false only for an empty batch.
C11_FalseOnlyWhenEmpty ==
    (rag.op = "index" /\ ~rag.upsert_fails /\ rag.units + rag.described > 0)
    => rag.result

\* the content type and the temporal anchor of a stored record
Tagged(record, video_id) ==
    /\ record.video_id = video_id
    /\ record.content_type \in {"transcript", "visual"}
    /\ record.start_time \in Nat

\* C12: after index_video_content on a batch of n > 0 units (transcript units
\* and described frames together) for a video without records, the store
\* accepting the upsert, the store holds exactly n records of the video, each
\* tagged with the video identifier, a content type and a temporal anchor.
C12_OneRecordPerUnit ==
    (rag.op = "index" /\ ~rag.upsert_fails /\ rag.fresh
        /\ rag.units + rag.described > 0)
    => /\ Cardinality(VideoRecords(collection, rag.video_id))
             = rag.units + rag.described
       /\ \A k \in VideoRecords(collection, rag.video_id) :
             Tagged(collection[k], rag.video_id)

\* C13: when the embedding capability fails during an indexing call on a
\* non-empty batch, every unit of the batch is still stored, the units of the
\* failing request with the zero-vector.
C13_DegradeNotFail ==
    (rag.op = "index" /\ rag.embedding_fails /\ ~rag.upsert_fails /\ rag.fresh
        /\ rag.units + rag.described > 0)
    => /\ Cardinality(VideoRecords(collection, rag.video_id))
             = rag.units + rag.described
       /\ \A k \in VideoRecords(collection, rag.video_id) :
             collection[k].embedding = ZERO_VECTOR

Range(q) == {q[i] : i \in 1..Len(q)}

\* the least distance from a timestamp to a candidate of a non-empty list
LeastDistance(candidates, t) ==
    CHOOSE d \in {Abs(candidates[i] - t) : i \in 1..Len(candidates)} :
       \A i \in 1..Len(candidates) : d <= Abs(candidates[i] - t)

\* C15: _extract_timestamps returns only context timestamps; a context
\* timestamp is returned exactly when it is the closest candidate of some
\* [MM:SS] match and lies within 30 seconds of it, and a match farther than 30
\* seconds from every candidate contributes nothing.  With candidates 0, 5, 40
\* '[00:05]' yields 5 and '[05:00]' yields nothing.
C15_ExtractTimestamps ==
    (helper.fn = "_extract_timestamps" /\ helper.pc = "returned") =>
       LET cands == helper.available_timestamps
           matches == FindAll(helper.response, 1)
           result == Range(helper.result)
       IN /\ result \subseteq Range(cands)
          /\ \A c \in result :
                \E i \in 1..Len(matches) :
                   /\ Abs(c - matches[i]) = LeastDistance(cands, matches[i])
                   /\ Abs(c - matches[i]) <= 30
          /\ cands # <<>> =>
                \A i \in 1..Len(matches) :
                   LeastDistance(cands, matches[i]) <= 30
                   => \E c \in result :
                         Abs(c - matches[i]) = LeastDistance(cands, matches[i])
          /\ (helper.response = "see [00:05]" /\ cands = <<0, 5, 40>>) => result = {5}
          /\ (helper.response = "[05:00]" /\ cands = <<0, 5, 40>>) => result = {}
          /\ (helper.response = "[0:35] and [00:05]" /\ cands = <<0, 5, 40>>)
                => result = {40, 5}

\* a call has returned two references taken from a text with two matches
C15_Witness ==
    /\ helper.fn = "_extract_timestamps"
    /\ helper.pc = "returned"
    /\ helper.response = "[0:35] and [00:05]"
    /\ helper.available_timestamps = <<0, 5, 40>>
    /\ Range(helper.result) = {5, 40}

\* C16: the timestamp_references of every chat response and query result
\* that is returned are in strictly ascending order (sorted, no value twice)
\* and none is negative.
C16_ReferencesSortedUnique ==
    (rag.op \in {"message", "chat", "query"} /\ rag.kind # "error") =>
       LET refs == rag.timestamp_references
       IN /\ \A i \in 1..Len(refs) : refs[i] >= 0
          /\ \A i, j \in 1..Len(refs) : i < j => refs[i] < refs[j]

\* a /message answer carrying two references, for a text that names the later
\* one first
C16_Witness ==
    /\ rag.op = "message"
    /\ rag.kind = "answer"
    /\ rag.response = "[00:01] then [00:00]"
    /\ rag.timestamp_references = <<0, 1>>

\* C17: a query (RAGService.query, called on its own or by POST /chat) whose
\* matching content has a unit anchored at timestamp 0 and for which the text
\* model answers with a text containing '[00:00]' returns a result carrying
\* timestamp reference 0.
C17_ZeroReferenceSurfaces ==
    (/\ rag.op \in {"chat", "query"}
     /\ rag.queries # <<>>
     /\ rag.text_model
     /\ 0 \in Range(FindAll(rag.generation, 1))
     /\ \E k \in QueryMatches(collection, rag.queries[1]) : collection[k].start_time = 0)
    => /\ rag.kind = "answer"
       /\ 0 \in Range(rag.timestamp_references)

\* C18: an answer over no context unit at all (RAGService.query and POST
\* /message) does not call the text model and returns the fixed apology that
\* names the question, with the fixed low confidence.
C18_NoContextNoGeneration ==
    (/\ rag.op \in {"message", "query"}
     /\ rag.queries # <<>>
     /\ rag.context = 0)
    => /\ ~rag.generated
       /\ rag.response = Apology(rag.message)
       /\ rag.confidence = CONFIDENCE_NO_SOURCES

\* C19: generate_pseudo_transcript_from_frames over n frames that all carry a
\* description returns n chunks; taken in ascending timestamp order, chunk i
\* starts at frame i's timestamp, ends where chunk i+1 starts, and the last
\* chunk ends 5 seconds after it starts.
C19_PseudoTranscriptChain ==
    (/\ helper.fn = "generate_pseudo_transcript_from_frames"
     /\ helper.pc = "returned"
     /\ \A i \in 1..Len(helper.frames) : helper.descriptions[i] = ANALYSIS_OK)
    => LET n == Len(helper.frames)
           ts == SortAscending([i \in 1..n |-> helper.frames[i].timestamp])
           chunks == helper.result
       IN /\ Len(chunks) = n
          /\ \A i \in 1..n : chunks[i].start_time = ts[i]
          /\ \A i \in 1..(n - 1) : chunks[i].end_time = chunks[i + 1].start_time
          /\ n > 0 => chunks[n].end_time = chunks[n].start_time + 5

\* three described frames handed over out of timestamp order have given
\* three chunks
C19_Witness ==
    /\ helper.fn = "generate_pseudo_transcript_from_frames"
    /\ helper.pc = "returned"
    /\ Len(helper.frames) = 3
    /\ helper.frames[1].timestamp > helper.frames[2].timestamp
    /\ \A i \in 1..3 : helper.descriptions[i] = ANALYSIS_OK
    /\ Len(helper.result) = 3
    /\ helper.result[1].end_time = helper.result[2].start_time

\* the text is made of blanks only (the empty text included)
Blank(text) == \A i \in 1..Len(text) : SubSeq(text, i, i) = " "

\* C20: the chunks extract_youtube_transcript makes of the provider's entries
\* have a non-empty text without blanks around it and start_time <= end_time;
\* there is one chunk for each entry whose text is not blank, with the entry's
\* start and end_time = start + duration (0 when the entry has no duration),
\* and none for the other entries.
C20_CaptionChunks ==
    (cap.pc = "done" /\ cap.video_id # "None") =>
       LET entries == cap.transcript_list
           chunks == cap.chunks
           kept == {i \in 1..Len(entries) : ~Blank(entries[i].text)}
           duration(i) == IF "duration" \in DOMAIN entries[i]
                          THEN entries[i].duration ELSE 0
       IN /\ \A j \in 1..Len(chunks) :
                /\ chunks[j].text # ""
                /\ SubSeq(chunks[j].text, 1, 1) # " "
                /\ SubSeq(chunks[j].text, Len(chunks[j].text), Len(chunks[j].text)) # " "
                /\ chunks[j].start_time <= chunks[j].end_time
          /\ Len(chunks) = Cardinality(kept)
          /\ \A i \in kept :
                \E j \in 1..Len(chunks) :
                   /\ chunks[j].id = cap.video_id \o "_transcript_" \o ToString(i - 1)
                   /\ chunks[j].start_time = entries[i].start
                   /\ chunks[j].end_time = entries[i].start + duration(i)

\* a call has returned one chunk for three entries, two of them blank, and
\* the chunk's text has lost the blanks around it
C20_Witness ==
    /\ cap.pc = "done"
    /\ cap.video_id # "None"
    /\ Len(cap.transcript_list) = 3
    /\ Len(cap.chunks) = 1
    /\ cap.chunks[1].text = "world"
    /\ cap.chunks[1].end_time = cap.chunks[1].start_time


\* the run in slot t takes the decision of videos.py 103: it passes the 0.7
\* checkpoint and goes on
Decides(t) ==
    /\ tasks[t].pc = "content"
    /\ tasks'[t].pc \in {"describe", "chapters"}
    /\ tasks'[t].vid = tasks[t].vid

\* the fallback is entered: the sampling call of videos.py 114 is made
EntersFallback(t) == tasks'[t].phase = 1

\* C21 as stated: a run that takes the decision enters the pseudo-transcript
\* fallback if and only if caption acquisition returned no chunks and the
\* video is not transcript-only
C21_FallbackIffNoCaptions ==
    [][\A t \in Tasks : Decides(t) =>
          (EntersFallback(t) <=>
              (tasks[t].transcript_chunks = <<>> /\ tasks[t].status # "transcript_only"))]_vars

\* C21 amended: a run that takes the decision enters the pseudo-transcript
\* fallback if and only if caption acquisition returned no chunks, the video
\* is not transcript-only and its media file exists; when caption acquisition
\* returned at least one chunk, the run goes on to the chapter stage with
\* exactly those chunks, its frames untouched, and no sampling or description
\* call is made
C21_FallbackPolicy ==
    [][\A t \in Tasks : Decides(t) =>
          /\ EntersFallback(t) <=>
                /\ tasks[t].transcript_chunks = <<>>
                /\ tasks[t].status # "transcript_only"
                /\ tasks[t].file_path /\ storage[tasks[t].vid].video
          /\ tasks[t].transcript_chunks # <<>> =>
                /\ tasks'[t].transcript_chunks = tasks[t].transcript_chunks
                /\ tasks'[t].frames = tasks[t].frames
                /\ tasks'[t].pc = "chapters"
                /\ tasks'[t].sampled = <<>>]_vars

\* a run with caption chunks and local media has reached the chapter stage
C21_Witness ==
    \E t \in Tasks : /\ tasks[t].pc = "chapters"
                      /\ tasks[t].transcript_chunks # <<>>
                      /\ tasks[t].status # "transcript_only"
                      /\ tasks[t].file_path
                      /\ storage[tasks[t].vid].video

\* C22: a run for a transcript-only video makes no frame sampling, frame
\* description or pseudo-transcript synthesis call, and holds no visual unit
\* for indexing
C22_TranscriptOnlySkipsFrames ==
    \A t \in Tasks : tasks[t].status = "transcript_only" =>
        /\ tasks[t].frames = <<>>
        /\ tasks[t].sampled = <<>>
        /\ tasks[t].phase = 0
        /\ tasks[t].pc \notin {"analyze", "describe"}

\* a transcript-only run has reached the chapter stage
C22_Witness ==
    \E t \in Tasks : tasks[t].status = "transcript_only" /\ tasks[t].pc = "chapters"

\* the records of the store that lie in the window of the call
InWindowUnits ==
    {k \in VideoRecords(collection, rag.video_id) :
        LET lo == IF rag.timestamp - rag.window_seconds < 0 THEN 0
                  ELSE rag.timestamp - rag.window_seconds
            hi == rag.timestamp + rag.window_seconds
        IN lo <= collection[k].start_time /\ collection[k].end_time <= hi}

\* C23: for every match the store returns with distance d, the search result
\* produced has relevance score max(0, 1 - d)
C23_RelevanceScore ==
    rag.op = "search" =>
        /\ Len(rag.result) = Len(rag.answer)
        /\ \A i \in 1..Len(rag.answer) : \E j \in 1..Len(rag.result) :
              /\ rag.result[j].content = collection[rag.answer[i].id].document
              /\ rag.result[j].video_id = collection[rag.answer[i].id].video_id
              /\ rag.result[j].relevance_score =
                    (IF rag.answer[i].distance >= 1000 THEN 0
                     ELSE 1000 - rag.answer[i].distance)

\* C24: search_similar_content returns one result per match of the store,
\* by relevance score descending, results of equal score in the order the
\* store returned them
C24_OnePerMatchSorted ==
    rag.op = "search" =>
        \E p \in [1..Len(rag.answer) -> 1..Len(rag.result)] :
            /\ \A i, j \in 1..Len(rag.answer) : p[i] = p[j] => i = j
            /\ Len(rag.result) = Len(rag.answer)
            /\ \A i \in 1..Len(rag.answer) :
                  rag.result[p[i]].content = collection[rag.answer[i].id].document
            /\ \A i, j \in 1..Len(rag.answer) :
                  (i < j /\ rag.answer[i].distance >= 1000 /\ rag.answer[j].distance >= 1000)
                      => p[i] < p[j]
            /\ \A i, j \in 1..Len(rag.result) :
                  i <= j => rag.result[i].relevance_score >= rag.result[j].relevance_score

\* C25: get_content_around_timestamp returns exactly the units of the video
\* that lie in the window, transcripts ascending by start time, and no unit
\* of another video
C25_ExactlyTheWindow ==
    rag.op = "around" =>
        /\ {rag.result.transcript_chunks[i].id : i \in 1..Len(rag.result.transcript_chunks)}
              = {collection[k].ref : k \in {x \in InWindowUnits :
                                              collection[x].content_type = "transcript"}}
        /\ {rag.result.frames[i].id : i \in 1..Len(rag.result.frames)}
              = {collection[k].ref : k \in {x \in InWindowUnits :
                                              collection[x].content_type = "visual"}}
        /\ Len(rag.result.transcript_chunks)
              = Cardinality({x \in InWindowUnits : collection[x].content_type = "transcript"})
        /\ \A i, j \in 1..Len(rag.result.transcript_chunks) :
              i <= j => rag.result.transcript_chunks[i].start_time
                          <= rag.result.transcript_chunks[j].start_time

\* for a store the dummy query vector fits, the call returns the window
AroundWindowWhenStoreAnswers ==
    (rag.op = "around" /\ ~rag.query_raises) =>
        /\ {rag.result.transcript_chunks[i].id : i \in 1..Len(rag.result.transcript_chunks)}
              = {collection[k].ref : k \in InWindowUnits}
        /\ Len(rag.result.transcript_chunks) = Cardinality(InWindowUnits)
        /\ \A i, j \in 1..Len(rag.result.transcript_chunks) :
              i <= j => rag.result.transcript_chunks[i].start_time
                          <= rag.result.transcript_chunks[j].start_time

\* C26: the context of an answer holds at most 5 transcript units and at most
\* 3 visual units, from the front of the retrieved lists, and at most the last
\* 5 turns of the history; the candidate timestamps are exactly the
\* timestamps of the units in the context
C26_BoundedContext ==
    (helper.fn = "chat_context" /\ helper.pc = "returned") =>
        LET r == helper.result
            nh == Len(helper.chat_history)
        IN /\ Len(r.transcript) <= 5
           /\ Len(r.transcript) <= Len(helper.transcript_chunks)
           /\ \A i \in 1..Len(r.transcript) : r.transcript[i] = helper.transcript_chunks[i]
           /\ Len(r.visual) <= 3
           /\ \A i \in 1..Len(r.visual) : \E j \in 1..3 :
                 j <= Len(helper.frames) /\ r.visual[i] = helper.frames[j]
           /\ Len(r.conversation) <= 5
           /\ Len(r.conversation) <= nh
           /\ \A i \in 1..Len(r.conversation) :
                 r.conversation[i] = helper.chat_history[nh - Len(r.conversation) + i]
           /\ Len(r.timestamps) = Len(r.transcript) + Len(r.visual)
           /\ \A i \in 1..Len(r.transcript) : r.timestamps[i] = r.transcript[i].start_time
           /\ \A i \in 1..Len(r.visual) :
                 r.timestamps[Len(r.transcript) + i] = r.visual[i].timestamp

\* a call with more units and turns than the limits has returned
C26_Witness ==
    /\ helper.fn = "chat_context"
    /\ helper.pc = "returned"
    /\ Len(helper.transcript_chunks) > 5
    /\ Len(helper.frames) > 3
    /\ Len(helper.chat_history) > 5
    /\ Len(helper.result.transcript) = 5
    /\ Len(helper.result.visual) = 3


\* a change of the persisted status of a video that follows the state machine:
\* accepted as uploaded, processing or transcript-only, from uploaded to
\* processing, from processing or transcript-only to a terminal status, and
\* from a terminal status back to processing; the record may be deleted
AlongStateMachine(old, new) ==
    \/ new = "None"
    \/ old = "None" /\ new \in {"uploaded", "processing", "transcript_only"}
    \/ old = "uploaded" /\ new = "processing"
    \/ old \in {"processing", "transcript_only"}
          /\ new \in {"processing", "transcript_only", "completed", "failed"}
    \/ old \in {"completed", "failed"} /\ new \in {"processing", "transcript_only"}

\* C27: the persisted status of a video changes only along uploaded ->
\* processing -> {completed, failed}: never from uploaded directly to a
\* terminal status, and never out of a terminal status except to processing
C27_StatusStateMachine ==
    [][\A v \in VideoIds :
          storage'[v].status # storage[v].status =>
              AlongStateMachine(storage[v].status, storage'[v].status)]_vars


\* the run in slot t goes to the failure handler in this step
Fails(t) ==
    /\ tasks[t].pc \notin {"idle", "except"}
    /\ tasks'[t].pc = "except"
    /\ tasks'[t].vid = tasks[t].vid

\* C28: caption acquisition hands the run a list, possibly empty, whatever
\* the provider does, and an empty list does not make the run fail: the
\* caption step and the step that finds the list empty go to the failure
\* handler only for the KeyError of a tracker entry that was deleted, and no
\* run is ever handling an error of the caption provider
C28_CaptionFailureNotFatal ==
    [][\A t \in Tasks :
          /\ (Fails(t) /\ tasks[t].pc = "transcript")
                => ~HasEntry(processing_status, tasks[t].vid)
          /\ (Fails(t) /\ tasks[t].pc = "content" /\ tasks[t].transcript_chunks = <<>>)
                => ~HasEntry(processing_status, tasks[t].vid)
          /\ tasks'[t].pc = "except"
                => tasks'[t].err \in {"KeyError", "TypeError", "AttributeError"}]_vars

\* the run of a video with a source URL got no caption chunk and is
\* describing the frames it sampled instead
C28_Witness ==
    \E t \in Tasks : /\ tasks[t].source_url # "None"
                      /\ tasks[t].transcript_chunks = <<>>
                      /\ tasks[t].pc = "describe"
                      /\ tasks[t].phase = 1


\* the failure handling of the run in slot t takes place in this step
HandlesFailure(t) ==
    /\ tasks[t].pc = "except"
    /\ tasks'[t].pc = "idle"
    /\ HasEntry(processing_status', tasks[t].vid)
    /\ processing_status'[tasks[t].vid] = FailedEntry(tasks[t].err)

\* C29: the failure handling of a run rolls nothing back: the frame images,
\* the media file and the directory of every video and the records of the
\* vector store are the same before and after the transition to failed
C29_NoRollback ==
    [][\A t \in Tasks : HandlesFailure(t) =>
          /\ collection' = collection
          /\ \A v \in VideoIds : /\ storage'[v].frames = storage[v].frames
                                 /\ storage'[v].video = storage[v].video
                                 /\ storage'[v].dir = storage[v].dir]_vars

\* a run that extracted frames has failed and its frame images are on disk
C29_Witness ==
    \E v \in VideoIds : /\ storage[v].status = "failed"
                         /\ storage[v].frames # {}
                         /\ HasEntry(processing_status, v)
                         /\ processing_status[v].status = "failed"


\* this step is a step of the run in slot t, its failure handling included:
\* the run moves and no other slot does
StepOfRun(t) ==
    /\ tasks[t].pc # "idle"
    /\ tasks'[t] # tasks[t]
    /\ tasks'[t].pc = "idle" => HasEntry(processing_status', tasks[t].vid)
    /\ \A u \in Tasks \ {t} : tasks'[u] = tasks[u]

\* C30: a step of the run for video A, its failure handling included, leaves
\* the tracker entry, the persisted record and the index records of every
\* other video B as they were
C30_RunsDoNotInterfere ==
    [][\A t \in Tasks : StepOfRun(t) =>
          \A B \in VideoIds \ {tasks[t].vid} :
              /\ HasEntry(processing_status', B) = HasEntry(processing_status, B)
              /\ HasEntry(processing_status, B) => processing_status'[B] = processing_status[B]
              /\ storage'[B] = storage[B]
              /\ VideoRecords(collection', B) = VideoRecords(collection, B)
              /\ \A k \in VideoRecords(collection, B) : collection'[k] = collection[k]]_vars

\* the run for one video is about to be handled as failed while the run for
\* another video is suspended in the middle of a frame loop
C30_Witness ==
    \E t, u \in Tasks :
        /\ tasks[t].pc = "except"
        /\ loop = t
        /\ tasks[u].pc \in {"analyze", "describe"}
        /\ tasks[u].i > 1
        /\ tasks[u].vid # tasks[t].vid
        /\ HasEntry(processing_status, tasks[u].vid)


\* this step is DELETE /{video_id} for v: its directory is gone and nothing
\* but the entry of v leaves the tracker
DeletionOf(v) ==
    /\ storage'[v] = NoStorage
    /\ tasks' = tasks
    /\ processing_status' = DictDel(processing_status, v)

\* the process starts again: the tracker, which lives in memory, is empty
\* and no run is left
ProcessRestarts ==
    /\ processing_status' = EmptyDict
    /\ \A t \in Tasks : tasks'[t] = IdleTask
    /\ storage' = storage

\* C31: the start of a run creates the tracker entry of its video; an entry
\* leaves the tracker only by the deletion of its video (or with the process
\* itself); and right after DELETE /{video_id} there is no entry for it
C31_EntryLifetime ==
    [][/\ \A t \in Tasks :
            (tasks[t].pc = "scheduled" /\ tasks'[t].pc \notin {"scheduled", "idle"})
                => HasEntry(processing_status', tasks[t].vid)
       /\ \A v \in VideoIds :
            (HasEntry(processing_status, v) /\ ~HasEntry(processing_status', v))
                => (DeletionOf(v) \/ ProcessRestarts)
       /\ \A v \in VideoIds :
            (storage[v].dir /\ ~storage'[v].dir) => ~HasEntry(processing_status', v)]_vars

\* a run created the entry of its video at its start, and the deletion of the
\* video has removed it
C31_Witness ==
    \E t \in Tasks : /\ tasks[t].pc \notin {"idle", "scheduled"}
                      /\ tasks[t].wrote.status = "processing"
                      /\ ~HasEntry(processing_status, tasks[t].vid)
                      /\ ~storage[tasks[t].vid].dir


\* a URL that is not a watch URL of a video
Malformed(url) == url \notin {"watch?v=" \o k : k \in YoutubeKeys}

\* C32: a request of POST /youtube with a URL from which no video identifier
\* can be extracted is answered with an error, schedules no run, creates no
\* tracker entry and writes no file
C32_MalformedRejected ==
    [][(helper' # helper /\ helper'.fn = "process_youtube_video" /\ Malformed(helper'.url))
          => /\ helper'.code >= 400
             /\ tasks' = tasks
             /\ processing_status' = processing_status
             /\ storage' = storage]_vars

\* a request with a malformed URL has been answered while a video accepted
\* before waits for its run
C32_Witness ==
    /\ helper.fn = "process_youtube_video"
    /\ Malformed(helper.url)
    /\ \E t \in Tasks : tasks[t].pc = "scheduled"


\* C33: no write of a run, the terminal one included, leaves in the tracker
\* entry a progress below the one the run wrote before
C33_ProgressThroughTerminal ==
    [][\A t \in Tasks :
          (RunStep(t) /\ HasEntry(processing_status', tasks[t].vid))
          => processing_status'[tasks[t].vid].progress
                >= processing_status[tasks[t].vid].progress]_vars


\* the {type} part of a record id: 'transcript' for transcript units (captions
\* and pseudo-transcript alike), 'frame' for frame descriptions
RecordIdType(content_type) ==
    IF content_type = "visual" THEN "frame" ELSE "transcript"

\* C34: every record of the store is kept under its own id, of the form
\* {video_id}_{type}_{ordinal}, and an indexing call that writes the units of
\* a video without records leaves one record per unit: the ids of the batch
\* are pairwise distinct and no unit takes the place of another.
C34_RecordIdsDistinct ==
    /\ \A k \in DOMAIN collection :
          /\ collection[k].id = k
          /\ \E i \in 0..MaxUnits :
                k = collection[k].video_id \o "_"
                       \o RecordIdType(collection[k].content_type)
                       \o "_" \o ToString(i)
    /\ (rag.op = "index" /\ rag.result /\ rag.fresh)
          => Cardinality(VideoRecords(collection, rag.video_id))
                = rag.units + rag.described

\* an indexing call has written a batch of several units
C34_Witness ==
    /\ rag.op = "index" /\ rag.result /\ rag.fresh /\ rag.units >= 2
    /\ Cardinality(VideoRecords(collection, rag.video_id)) >= 2


\* the tracker entry of the run's video is terminal
TerminalEntry(ps, v) ==
    HasEntry(ps, v) /\ ps[v].status \in {"completed", "failed"}

\* C35: under fair scheduling every started run ends, whatever the external
\* capabilities do and however many frames there are, and the step that ends
\* it leaves the tracker entry of its video in a terminal state ('completed'
\* or 'failed'); the failure handler always ends the run.
C35_RunsTerminate ==
    /\ \A t \in Tasks : (tasks[t].pc # "idle") ~> (tasks[t].pc = "idle")
    /\ [][\A t \in Tasks :
             /\ (tasks[t].pc \notin {"idle", "scheduled"} /\ tasks'[t].pc = "idle"
                    /\ ~ProcessRestarts)
                   => TerminalEntry(processing_status', tasks[t].vid)
             /\ FailureHandler(t) => tasks'[t].pc = "idle"]_vars

\* a run has gone through its frames and ended in a terminal state
C35_Witness ==
    \E t \in Tasks, v \in VideoIds :
       /\ tasks[t].pc = "idle"
       /\ TerminalEntry(processing_status, v)
       /\ storage[v].frames # {}


\* the entry is one the failure handler writes
WrittenByHandler(entry) ==
    /\ entry.progress = PROGRESS_FAILED
    /\ StartsWith(entry.message, "Processing failed: ")

\* C36: in every reachable state, those reached by two runs of one video
\* interleaving their writes included, a 'completed' entry has progress 1.0, a
\* 'failed' entry has the progress and the message the failure handler writes,
\* and a 'processing' entry has a progress below 1.0.
C36_EntryConsistent ==
    \A v \in DOMAIN processing_status :
       LET entry == processing_status[v]
       IN /\ entry.status = "completed" => entry.progress = PROGRESS_COMPLETED
          /\ entry.status = "failed" => WrittenByHandler(entry)
          /\ entry.status = "processing" => entry.progress < PROGRESS_COMPLETED


\* a step of run t past its start.  Only a deletion takes the entry of a
\* started run away while it is in flight (a restart ends the run as well).
InFlightStep(t) ==
    /\ tasks[t].pc \notin {"idle", "scheduled"}
    /\ tasks'[t] # tasks[t]
    /\ ~ProcessRestarts

\* C37: a run that is in flight when its video is deleted recreates neither
\* the tracker entry nor an index record of the video: none of its steps
\* after the deletion brings either back.
C37_DeletedStaysDeleted ==
    [][\A t \in Tasks :
          (InFlightStep(t) /\ ~HasEntry(processing_status, tasks[t].vid))
          => /\ ~HasEntry(processing_status', tasks[t].vid)
             /\ VideoRecords(collection', tasks[t].vid)
                   \subseteq VideoRecords(collection, tasks[t].vid)]_vars


\* the entry is the one a run writes when it completes (videos.py 175-179),
\* not one a status read synthesized
CompletedByRun(entry) ==
    entry.status = "completed" /\ entry.message = CompletedEntry.message

\* C38: whenever the tracker entry of a video is 'completed' as the result of
\* a run and the persisted record exists, the persisted status is 'completed'.
\* No run of the program completes, so no reachable state has such an entry.
C38_CompletedIsPersisted ==
    \A v \in DOMAIN processing_status :
       (CompletedByRun(processing_status[v]) /\ storage[v].meta)
       => storage[v].status = "completed"

\* no tracker entry is ever the one a completing run writes
NoRunCompletes ==
    \A v \in DOMAIN processing_status : ~CompletedByRun(processing_status[v])


\* C39: a delete_video(v) that answers with success leaves no record of v in
\* the store; one whose store deletion fails answers with an error and
\* removes neither the files nor the tracker entry of v.
C39_DeleteAllOrError ==
    [][\A v \in VideoIds, delete_fails \in BOOLEAN :
          DeleteRequest(v, delete_fails)
          => /\ helper'.code = 200 => VideoRecords(collection', v) = {}
             /\ delete_fails => /\ helper'.code # 200
                                /\ storage'[v] = storage[v]
                                /\ processing_status' = processing_status]_vars


\* the first half of C39 alone: success means the store holds nothing of v
DeleteSuccessMeansGone ==
    [][\A v \in VideoIds, delete_fails \in BOOLEAN :
          (DeleteRequest(v, delete_fails) /\ helper'.code = 200)
          => VideoRecords(collection', v) = {}]_vars


\* a call of extract_video_frames on a video of at least one frame has returned
Sampled ==
    /\ helper.fn = "extract_video_frames"
    /\ helper.pc = "returned"
    /\ helper.total_frames >= 1

\* what every such call satisfies, whichever way the positions are rounded:
\* the count is min(max_frames, max(1, floor(T*r))) and within the budget,
\* the positions are below T and strictly increasing, so are the timestamps
\* of the frames returned, and the frame ids are {video_id}_frame_{i} with i
\* the ordinal of the position, pairwise distinct
SamplingBounds ==
    LET r == helper.result
        T == helper.total_frames
        by_rate == (T * helper.sample_rate) \div 100
    IN /\ r.n = IF helper.max_frames < (IF by_rate > 1 THEN by_rate ELSE 1)
                THEN helper.max_frames ELSE (IF by_rate > 1 THEN by_rate ELSE 1)
       /\ r.n <= helper.max_frames /\ Len(r.frames) <= r.n
       /\ \A k \in 1..r.n : r.positions[k] >= 0 /\ r.positions[k] < T
       /\ \A k \in 1..(r.n - 1) : r.positions[k] < r.positions[k + 1]
       /\ \A j \in 1..(Len(r.frames) - 1) :
             r.frames[j].timestamp < r.frames[j + 1].timestamp
       /\ \A j, k \in 1..Len(r.frames) :
             j # k => r.frames[j].id # r.frames[k].id
       /\ \A j \in 1..Len(r.frames) :
             \E i \in 0..(r.n - 1) :
                r.frames[j].id = helper.video_id \o "_frame_" \o ToString(i)

\* C40 as stated: the positions are exactly floor(i*T/n), i = 0..n-1, with the
\* count, the bounds, the order and the ids as above
C40_SamplingAsStated ==
    Sampled
    => /\ SamplingBounds
       /\ \A k \in 1..helper.result.n :
             helper.result.positions[k]
                = ((k - 1) * helper.total_frames) \div helper.result.n

\* C40 amended: position i is floor(i*T/n) or, when the floating-point
\* product i * (T/n) falls just below that integer, one less; the count, the
\* bounds, the order and the ids are as stated
C40_SamplingUpToRounding ==
    Sampled
    => /\ SamplingBounds
       /\ \A k \in 1..helper.result.n :
             LET exact == ((k - 1) * helper.total_frames) \div helper.result.n
             IN /\ helper.result.positions[k] \in {exact - 1, exact}
                /\ helper.result.positions[k] = exact - 1
                      => exact * helper.result.n = (k - 1) * helper.total_frames

\* a call that uses the whole budget of 20 on a video where one product is
\* rounded below its integer value
C40_Witness ==
    /\ Sampled
    /\ helper.result.n = DEFAULT_MAX_FRAMES
    /\ Len(helper.result.frames) = DEFAULT_MAX_FRAMES
    /\ \E k \in 1..helper.result.n :
          helper.result.positions[k]
             = ((k - 1) * helper.total_frames) \div helper.result.n - 1

=============================================================================
